---- MODULE Spec2Model ----
(***************************************************************************)
(* Chat itinerary-modification pipeline of Mohaeng-AI:                     *)
(*   analyze_intent (classify) -> mutate -> cascade -> respond             *)
(* as wired by app/graph/chat/workflow.py, together with the visit-time    *)
(* policy of app/core/visit_time_policy.py used by cascade.                *)
(*                                                                         *)
(* Python dicts are references: the itineraries live in `heap`, and the    *)
(* ChatState keys current_itinerary / modified_itinerary hold references   *)
(* into it, so aliasing and in-place mutation are visible.                 *)
(***************************************************************************)
EXTENDS Integers, Sequences, FiniteSets, TLC

(***************************************************************************)
(* Bounds of the model (not program constants).                            *)
(***************************************************************************)
MaxIndex == 3        \* intents use target/destination indexes 1..MaxIndex
MaxEdits == 2        \* edit requests of one session

(***************************************************************************)
(* Program constants.                                                      *)
(***************************************************************************)
_MAX_PLACES_PER_DAY == 10
_MIN_PLACES_PER_DAY == 1
_DEFAULT_STAY_MINUTES == 90
_DEFAULT_TRANSIT_FACTOR == 15
_DEFAULT_TRANSIT_BASE_MINUTES == 10
_DEFAULT_LATE_HOUR == 23
_DEFAULT_WALK_WARNING_MINUTES == 30
_VISIT_TIME_MINUTE_STEP == 30
_DEFAULT_START_MINUTES == 540
MinutesPerDay == 1440
\* 10 km margin / 110.574 km per degree = 0.0904 degree = 9.04 units of 0.01 degree
BboxMarginUnits == 9
\* metres of great-circle distance per 0.01 degree of latitude (6371 km radius)
MetersPerUnit == 1112

(***************************************************************************)
(* Python None / missing key, one sentinel per value type.                 *)
(***************************************************************************)
None == "None"
NoRef == 0
NoCoord == 9999
NoIndex == 0

Min(a, b) == IF a <= b THEN a ELSE b
Max(a, b) == IF a >= b THEN a ELSE b
Abs(a) == IF a >= 0 THEN a ELSE 0 - a

(***************************************************************************)
(* Enumerations (app/schemas/enums.py).                                    *)
(***************************************************************************)
REPLACE == "REPLACE"
ADD == "ADD"
REMOVE == "REMOVE"
MOVE == "MOVE"
ChatOperation == {REPLACE, ADD, REMOVE, MOVE}

SUCCESS == "SUCCESS"
REJECTED == "REJECTED"
ASK_CLARIFICATION == "ASK_CLARIFICATION"

SectionLabels == {"MORNING", "LUNCH", "AFTERNOON", "DINNER", "EVENING", "NIGHT"}

(***************************************************************************)
(* visit_time texts.  <<"HHMM", h, m>> is the text "hh:mm", <<"AM", h, m>> *)
(* and <<"PM", h, m>> are "h:mm AM" / "h:mm PM", <<label, 0, 0>> is a      *)
(* section label, OverText is the overage sentinel, EmptyText is "" and    *)
(* <<"TEXT", 0, 0>> any other text.                                        *)
(***************************************************************************)
HHMM(h, m) == <<"HHMM", h, m>>
Section(label) == <<label, 0, 0>>
OverText == <<"OVER", 0, 0>>
EmptyText == <<"EMPTY", 0, 0>>
FreeText == <<"TEXT", 0, 0>>

(***************************************************************************)
(* Places and itineraries.  A place is the CoursePlace dict; place_id      *)
(* stands for the identity of the place (name, address, url, description   *)
(* travel with it).  Coordinates are in units of 0.01 degree, all modelled *)
(* places lying on one meridian; NoCoord is a missing coordinate.          *)
(***************************************************************************)
MkPlace(id, lat, lon, seq, vt) ==
    [place_id |-> id, latitude |-> lat, longitude |-> lon,
     visit_sequence |-> seq, visit_time |-> vt]

MkDay(n, places) == [day_number |-> n, places |-> places]

NoItinerary == [planning_preference |-> None, schema_ok |-> FALSE, itinerary |-> <<>>]

(***************************************************************************)
(* app/core/visit_time_policy.py                                           *)
(***************************************************************************)
NoMinutes == 0 - 1

parse_time_to_hhmm_minutes(value) ==
    LET kind == value[1]
        h0 == value[2]
        minute == value[3]
        hour == IF kind = "PM" /\ h0 # 12 THEN h0 + 12
                ELSE IF kind = "AM" /\ h0 = 12 THEN 0
                ELSE h0
    IN  IF kind \notin {"HHMM", "AM", "PM"} THEN NoMinutes
        ELSE IF ~(0 <= hour /\ hour < 24 /\ 0 <= minute /\ minute < 60) THEN NoMinutes
        ELSE hour * 60 + minute

format_minutes_to_hhmm(total_minutes) ==
    LET normalized == Max(0, total_minutes)
    IN  HHMM((normalized \div 60) % 24, normalized % 60)

format_minutes_to_section_en(total_minutes) ==
    LET hour == (Max(0, total_minutes) \div 60) % 24
    IN  IF hour < 11 THEN Section("MORNING")
        ELSE IF hour < 14 THEN Section("LUNCH")
        ELSE IF hour < 18 THEN Section("AFTERNOON")
        ELSE IF hour < 20 THEN Section("DINNER")
        ELSE IF hour < 22 THEN Section("EVENING")
        ELSE Section("NIGHT")

_SECTION_TIME_MAP(label) ==
    CASE label = "MORNING" -> HHMM(9, 0)
      [] label = "LUNCH" -> HHMM(12, 0)
      [] label = "AFTERNOON" -> HHMM(14, 0)
      [] label = "DINNER" -> HHMM(18, 0)
      [] label = "EVENING" -> HHMM(20, 0)
      [] label = "NIGHT" -> HHMM(22, 0)

_section_minutes(value) ==
    IF value[1] \in SectionLabels
    THEN parse_time_to_hhmm_minutes(_SECTION_TIME_MAP(value[1]))
    ELSE NoMinutes

\* the modelled CoursePlace dicts carry no "section" / "section_hint" key,
\* so the last lookup of the code finds nothing
_resolve_anchor_minutes(place, llm_minutes) ==
    IF llm_minutes # NoMinutes THEN llm_minutes
    ELSE IF parse_time_to_hhmm_minutes(place.visit_time) # NoMinutes
         THEN parse_time_to_hhmm_minutes(place.visit_time)
    ELSE IF _section_minutes(place.visit_time) # NoMinutes
         THEN _section_minutes(place.visit_time)
    ELSE NoMinutes

HHMM_MODE == "HHMM"
SECTION_EN == "SECTION_EN"

_format_visit_time(total_minutes, output_mode) ==
    IF output_mode = SECTION_EN
    THEN format_minutes_to_section_en(total_minutes)
    ELSE format_minutes_to_hhmm(total_minutes)

\* rounding to the nearest step instead of up
_ceil_minutes_to_step_Nearest(total_minutes) ==
    LET normalized == Max(0, total_minutes)
        step == Max(1, _VISIT_TIME_MINUTE_STEP)
        remainder == normalized % step
    IN  IF 2 * remainder < step THEN normalized - remainder
        ELSE normalized + (step - remainder)

_ceil_minutes_to_step(total_minutes) ==
    LET normalized == Max(0, total_minutes)
        step == Max(1, _VISIT_TIME_MINUTE_STEP)
        remainder == normalized % step
    IN  IF remainder = 0 THEN normalized ELSE normalized + (step - remainder)

\* great-circle distance in metres of two points of one meridian
_haversine_distance_m(lat1, lon1, lat2, lon2) == MetersPerUnit * Abs(lat2 - lat1)

\* int(distance_km * transit_factor + transit_base_minutes): int() truncates
calc_transit_minutes(lat1, lon1, lat2, lon2) ==
    (_haversine_distance_m(lat1, lon1, lat2, lon2) * _DEFAULT_TRANSIT_FACTOR
        + _DEFAULT_TRANSIT_BASE_MINUTES * 1000) \div 1000

\* warnings: <<kind, day, place a, place b, number>>
WalkWarning(day, a, b, minutes) == <<"WALK", day, a, b, minutes>>
OverWarning(day) == <<"OVER", day, 0, 0, 0>>
LateWarning(day, a, hour) == <<"LATE", day, a, 0, hour>>

\* proposals: a sequence of <<visit_sequence, text>> pairs for one day
ProposalText(proposals, sequence) ==
    IF \E k \in 1..Len(proposals) : proposals[k][1] = sequence
    THEN proposals[CHOOSE k \in 1..Len(proposals) : proposals[k][1] = sequence][2]
    ELSE EmptyText

\* midnight itself still taken as a time of the day
IsOverage_Strict(assigned_time) == assigned_time > MinutesPerDay

\* if assigned_time >= 1440
IsOverage(assigned_time) == assigned_time >= MinutesPerDay

RECURSIVE PolicyLoop(_, _, _, _, _, _, _)
PolicyLoop(places, index, prev_assigned, warnings, day_number, proposals, output_mode) ==
    IF index > Len(places) THEN [places |-> places, warnings |-> warnings]
    ELSE
    LET place == places[index]
        prev_place == places[index - 1]
        has_coords == /\ index > 1
                      /\ prev_place.latitude # NoCoord /\ prev_place.longitude # NoCoord
                      /\ place.latitude # NoCoord /\ place.longitude # NoCoord
        transit_minutes ==
            IF has_coords
            THEN calc_transit_minutes(prev_place.latitude, prev_place.longitude,
                                      place.latitude, place.longitude)
            ELSE 0
        w1 == IF has_coords /\ transit_minutes > _DEFAULT_WALK_WARNING_MINUTES
              THEN Append(warnings, WalkWarning(day_number, prev_place.place_id,
                                                place.place_id, transit_minutes))
              ELSE warnings
        base_time == IF index = 1 THEN _DEFAULT_START_MINUTES
                     ELSE prev_assigned + _DEFAULT_STAY_MINUTES + transit_minutes
        proposal_text == ProposalText(proposals, place.visit_sequence)
        proposal_minutes == IF proposal_text # EmptyText
                            THEN parse_time_to_hhmm_minutes(proposal_text)
                            ELSE NoMinutes
        anchor_time == _resolve_anchor_minutes(place, proposal_minutes)
        assigned_time == _ceil_minutes_to_step(
                            IF anchor_time # NoMinutes THEN Max(base_time, anchor_time)
                            ELSE base_time)
    IN  IF IsOverage(assigned_time)
        THEN [places |-> [k \in 1..Len(places) |->
                            IF k >= index THEN [places[k] EXCEPT !.visit_time = OverText]
                            ELSE places[k]],
              warnings |-> Append(w1, OverWarning(day_number))]
        ELSE PolicyLoop([places EXCEPT ![index].visit_time =
                                _format_visit_time(assigned_time, output_mode)],
                        index + 1, assigned_time,
                        IF assigned_time \div 60 >= _DEFAULT_LATE_HOUR
                        THEN Append(w1, LateWarning(day_number, place.place_id,
                                                    assigned_time \div 60))
                        ELSE w1,
                        day_number, proposals, output_mode)

apply_visit_time_policy(places, day_number, proposals, output_mode) ==
    IF places = <<>> THEN [places |-> places, warnings |-> <<>>]
    ELSE PolicyLoop(places, 1, 0, <<>>, day_number, proposals, output_mode)

(***************************************************************************)
(* Python list operations (positions are 0-based as in the code).          *)
(***************************************************************************)
\* places.insert(target_index, ...): the 1-based index used as a position
ListInsert_OneBased(list, pos, v) ==
    LET at == IF pos + 1 <= Len(list) THEN pos + 1 ELSE Len(list)
    IN  [k \in 1..(Len(list) + 1) |->
            IF k <= at THEN list[k] ELSE IF k = at + 1 THEN v ELSE list[k - 1]]

\* places.append(moved): the destination position ignored
ListInsert_Append(list, pos, v) == Append(list, v)

ListInsert(list, pos, v) ==
    [k \in 1..(Len(list) + 1) |->
        IF k <= pos THEN list[k] ELSE IF k = pos + 1 THEN v ELSE list[k - 1]]

\* places.pop(): the position forgotten, the last place removed
ListPop_Last(list, pos) == [k \in 1..(Len(list) - 1) |-> list[k]]

ListPop(list, pos) ==
    [k \in 1..(Len(list) - 1) |-> IF k <= pos THEN list[k] ELSE list[k + 1]]

ListSet(list, pos, v) == [list EXCEPT ![pos + 1] = v]

(***************************************************************************)
(* app/graph/modify/utils.py (imported by the chat nodes as chat.utils)    *)
(***************************************************************************)
\* the renumbering forgotten: every place keeps the number it had
reorder_visit_sequence_Noop(places) == places

reorder_visit_sequence(places) ==
    [k \in 1..Len(places) |-> [places[k] EXCEPT !.visit_sequence = k]]

\* f"day{day_number}_place{visit_sequence}"
build_diff_key(day_number, visit_sequence) == <<"day", day_number, "_place", visit_sequence>>

(***************************************************************************)
(* app/core/geo.py, on the 0.01-degree grid                                *)
(***************************************************************************)
\* 10 km / (111.320 km per degree * cos(37.5 degrees)) = 0.113 degree = 11.3 units
BboxLngMarginUnits == 11
NoBbox == [min_lat |-> NoCoord, max_lat |-> NoCoord, min_lng |-> NoCoord, max_lng |-> NoCoord]

SetMin(S) == CHOOSE x \in S : \A y \in S : x <= y
SetMax(S) == CHOOSE x \in S : \A y \in S : x >= y

_day_points(day) ==
    {k \in 1..Len(day.places) :
        day.places[k].latitude # NoCoord /\ day.places[k].longitude # NoCoord}

_day_bbox(day) ==
    LET pts == _day_points(day)
        lats == {day.places[k].latitude : k \in pts}
        lngs == {day.places[k].longitude : k \in pts}
    IN  IF pts = {} THEN NoBbox
        ELSE [min_lat |-> SetMin(lats) - BboxMarginUnits,
              max_lat |-> SetMax(lats) + BboxMarginUnits,
              min_lng |-> SetMin(lngs) - BboxLngMarginUnits,
              max_lng |-> SetMax(lngs) + BboxLngMarginUnits]

BboxContains(bbox, latitude, longitude) ==
    /\ bbox.min_lat <= latitude /\ latitude <= bbox.max_lat
    /\ bbox.min_lng <= longitude /\ longitude <= bbox.max_lng

(***************************************************************************)
(* app/graph/chat/nodes/mutate.py: helpers                                 *)
(***************************************************************************)
_hard_filter_by_bbox(results, bbox) ==
    LET Inside(p) == BboxContains(bbox, p.latitude, p.longitude)
    IN  SelectSeq(results, Inside)

\* the visit_sequence argument dropped (0 as in the ADD call)
_place_to_course_place_NoSequence(place, visit_sequence) ==
    MkPlace(place.place_id, place.latitude, place.longitude, 0, EmptyText)

_place_to_course_place(place, visit_sequence) ==
    MkPlace(place.place_id, place.latitude, place.longitude, visit_sequence, EmptyText)

\* position (1-based) of the first day whose day_number matches, 0 if none
_find_day(itinerary, day_number) ==
    IF \E k \in 1..Len(itinerary.itinerary) : itinerary.itinerary[k].day_number = day_number
    THEN CHOOSE k \in 1..Len(itinerary.itinerary) :
            /\ itinerary.itinerary[k].day_number = day_number
            /\ \A j \in 1..(k - 1) : itinerary.itinerary[j].day_number # day_number
    ELSE 0

NoPlaceId == 0

\* the selected candidate put first without being taken out of its place
_reorder_results_by_place_id_Dup(results, selected_place_id) ==
    IF \E k \in 1..Len(results) : results[k].place_id = selected_place_id
    THEN LET selected_index ==
                CHOOSE k \in 1..Len(results) : results[k].place_id = selected_place_id
         IN  <<results[selected_index]>> \o results
    ELSE results

_reorder_results_by_place_id(results, selected_place_id) ==
    IF \E k \in 1..Len(results) : results[k].place_id = selected_place_id
    THEN LET selected_index ==
                CHOOSE k \in 1..Len(results) :
                    /\ results[k].place_id = selected_place_id
                    /\ \A j \in 1..(k - 1) : results[j].place_id # selected_place_id
         IN  IF selected_index = 1 THEN results
             ELSE <<results[selected_index]>>
                    \o SubSeq(results, 1, selected_index - 1)
                    \o SubSeq(results, selected_index + 1, Len(results))
    ELSE results

(***************************************************************************)
(* app/services/place_rerank_service.py: reply is the id the rerank LLM    *)
(* answered with, NoPlaceId when the call timed out, raised or its output  *)
(* could not be parsed.                                                    *)
(***************************************************************************)
GOOGLE_PLACES_LLM_RERANK_MAX_CANDIDATES == 5

select_place_id_for_chat(candidates, reply) ==
    IF candidates = <<>> THEN NoPlaceId
    ELSE IF Len(candidates) = 1 THEN candidates[1].place_id
    ELSE IF reply = NoPlaceId THEN NoPlaceId
    ELSE IF reply \in {candidates[k].place_id : k \in 1..Len(candidates)} THEN reply
    ELSE NoPlaceId

(***************************************************************************)
(* app/graph/chat/nodes/mutate.py: _search_place                           *)
(* env is what the outside world answers during this call:                 *)
(*   raises         the places service raised                              *)
(*   r1, r2, r3     results of the 1st/2nd/3rd service.search call         *)
(*   suggest_reply  reply of the keyword-assist LLM ("LLM_FAIL" = raised)  *)
(*   rerank_reply   id answered by the rerank LLM (NoPlaceId = failed)     *)
(***************************************************************************)
NoPlace == [place_id |-> NoPlaceId, latitude |-> NoCoord, longitude |-> NoCoord]
GOOGLE_PLACES_LLM_RERANK_ENABLED == TRUE

_suggest_alternative_keyword(keyword, reply) ==
    IF reply = "LLM_FAIL" THEN None
    ELSE IF reply # "" /\ reply # keyword THEN reply
    ELSE None

SearchErr(results, error) ==
    [kind |-> "error", new_place |-> NoPlace, search_results |-> results, error |-> error,
     status |-> None, change_summary |-> None, suggested_keyword |-> None]

_search_place(intent, day, env) ==
    LET keyword == intent.search_keyword
        day_bbox == _day_bbox(day)
        first == IF day_bbox # NoBbox /\ env.r1 # <<>>
                 THEN _hard_filter_by_bbox(env.r1, day_bbox)
                 ELSE env.r1
        second == IF first = <<>> /\ day_bbox # NoBbox THEN env.r2 ELSE first
        results == IF second = <<>> THEN env.r3 ELSE second
        suggested == _suggest_alternative_keyword(keyword, env.suggest_reply)
        selected_place_id ==
            select_place_id_for_chat(
                SubSeq(results, 1, Min(Len(results), GOOGLE_PLACES_LLM_RERANK_MAX_CANDIDATES)),
                env.rerank_reply)
        reranked == IF GOOGLE_PLACES_LLM_RERANK_ENABLED /\ Len(results) > 1
                       /\ selected_place_id # NoPlaceId
                    THEN _reorder_results_by_place_id(results, selected_place_id)
                    ELSE results
    IN  IF keyword = None \/ keyword = "" THEN SearchErr(<<>>, "ERR_NO_KEYWORD")
        ELSE IF env.raises THEN SearchErr(<<>>, "ERR_SEARCH_FAILED")
        ELSE IF results = <<>>
        THEN [kind |-> "ask", new_place |-> NoPlace, search_results |-> <<>>, error |-> None,
              status |-> ASK_CLARIFICATION,
              change_summary |-> IF suggested # None THEN "SUM_NO_RESULTS_SUGGEST"
                                 ELSE "SUM_NO_RESULTS",
              suggested_keyword |-> suggested]
        ELSE [kind |-> "ok", new_place |-> reranked[1], search_results |-> reranked,
              error |-> None, status |-> None, change_summary |-> None,
              suggested_keyword |-> None]

\* the service.search calls _search_place issues, in order, each with the
\* filters it passes: the text search has no location_bias argument here
SearchRequest(min_rating, location_restriction, location_bias) ==
    [min_rating |-> min_rating, location_restriction |-> location_restriction,
     location_bias |-> location_bias]

SearchCalls(intent, day, env) ==
    LET day_bbox == _day_bbox(day)
        first == IF day_bbox # NoBbox /\ env.r1 # <<>>
                 THEN _hard_filter_by_bbox(env.r1, day_bbox)
                 ELSE env.r1
        second == IF first = <<>> /\ day_bbox # NoBbox THEN env.r2 ELSE first
    IN  <<SearchRequest(TRUE, day_bbox # NoBbox, FALSE)>>
        \o (IF first = <<>> /\ day_bbox # NoBbox
            THEN <<SearchRequest(TRUE, FALSE, FALSE)>> ELSE <<>>)
        \o (IF second = <<>> THEN <<SearchRequest(FALSE, FALSE, FALSE)>> ELSE <<>>)

(***************************************************************************)
(* app/graph/chat/nodes/mutate.py: mutate                                  *)
(***************************************************************************)
NoIntent == [op |-> None, target_day |-> 0, target_index |-> 0, destination_day |-> 0,
             destination_index |-> NoIndex, search_keyword |-> None,
             needs_clarification |-> FALSE]

FreshRef == 2

\* itinerary = current_itinerary: no copy, the same object
copy_deepcopy_Alias(ref) == ref

\* copy.deepcopy(current_itinerary): the reference of the copy
copy_deepcopy(ref) == FreshRef

\* {**state, "search_results": search_results, **err}
MergeSearchErr(state, found) ==
    IF found.kind = "error"
    THEN [state EXCEPT !.search_results = found.search_results, !.error = found.error]
    ELSE [state EXCEPT !.search_results = found.search_results,
                       !.status = found.status,
                       !.change_summary = found.change_summary,
                       !.suggested_keyword = found.suggested_keyword]

\* the places of the target day after the edit, with the diff key; only
\* evaluated once the checks of mutate have passed
EditedPlaces(op, places, intent, new_place) ==
    LET target_index == intent.target_index
        target_pos == target_index - 1
        target_day_num == intent.target_day
    IN  CASE op = REPLACE ->
               [places |-> ListSet(places, target_pos,
                                   _place_to_course_place(new_place, target_index)),
                diff_keys |-> <<build_diff_key(target_day_num, target_index)>>]
          [] op = ADD ->
               [places |-> reorder_visit_sequence(
                              ListInsert(places, target_index - 1,
                                         _place_to_course_place(new_place, 0))),
                diff_keys |-> <<build_diff_key(target_day_num, (target_index - 1) + 1)>>]
          [] op = REMOVE ->
               [places |-> reorder_visit_sequence(ListPop(places, target_pos)),
                diff_keys |-> <<build_diff_key(target_day_num, target_index)>>]
          [] op = MOVE ->
               LET dest_index == Max(1, intent.destination_index)
                   popped == ListPop(places, target_pos)
                   dest_pos == Min(dest_index - 1, Len(popped))
               IN  [places |-> reorder_visit_sequence(
                                  ListInsert(popped, dest_pos, places[target_pos + 1])),
                    diff_keys |-> <<build_diff_key(target_day_num, dest_pos + 1)>>]

\* len(places) > _MAX_PLACES_PER_DAY: the capacity check off by one
DayIsFull_OffByOne(places) == Len(places) > _MAX_PLACES_PER_DAY

\* len(places) >= _MAX_PLACES_PER_DAY
DayIsFull(places) == Len(places) >= _MAX_PLACES_PER_DAY

\* len(places) < _MIN_PLACES_PER_DAY: the last place may be removed
DayAtMinimum_Strict(places) == Len(places) < _MIN_PLACES_PER_DAY

\* len(places) <= _MIN_PLACES_PER_DAY
DayAtMinimum(places) == Len(places) <= _MIN_PLACES_PER_DAY

\* the cross-day test dropped: every MOVE handled as a same-day MOVE
IsCrossDayMove_Never(dest_day_num, target_day_num) == FALSE

\* dest_day_num != target_day_num
IsCrossDayMove(dest_day_num, target_day_num) == dest_day_num # target_day_num

mutate(state, heap, env) ==
    LET intent == state.intent
        Keep(st) == [state |-> st, heap |-> heap]
    IN
    IF intent = NoIntent \/ state.current_itinerary = NoRef
    THEN Keep([state EXCEPT !.error = "ERR_MUTATE_NEEDS_INPUT"])
    ELSE
    LET op == intent.op
        target_day_num == intent.target_day
        target_index == intent.target_index
        ref == copy_deepcopy(state.current_itinerary)
        itinerary == heap[state.current_itinerary]
        d == _find_day(itinerary, target_day_num)
    IN
    IF d = 0 THEN Keep([state EXCEPT !.error = "ERR_DAY_NOT_FOUND"])
    ELSE
    LET day == itinerary.itinerary[d]
        places == day.places
        target_pos == target_index - 1
        found == _search_place(intent, day, env)
        Done(new_place, search_results) ==
            LET edit == EditedPlaces(op, places, intent, new_place)
            IN  [state |-> [state EXCEPT !.modified_itinerary = ref,
                                         !.diff_keys = edit.diff_keys,
                                         !.warnings = state.warnings,
                                         !.search_results = search_results],
                 heap |-> [heap EXCEPT ![ref] =
                              [itinerary EXCEPT !.itinerary[d].places = edit.places]]]
    IN
    IF op \in {REPLACE, REMOVE, MOVE} /\ (target_pos < 0 \/ target_pos >= Len(places))
    THEN Keep([state EXCEPT !.error = "ERR_PLACE_NOT_FOUND"])
    ELSE CASE op = REPLACE ->
                IF found.kind # "ok" THEN Keep(MergeSearchErr(state, found))
                ELSE Done(found.new_place, found.search_results)
           [] op = ADD ->
                IF DayIsFull(places)
                THEN Keep([state EXCEPT !.status = REJECTED,
                                        !.change_summary = "SUM_MAX_PLACES"])
                ELSE IF target_index < 1 \/ target_index > Len(places) + 1
                THEN Keep([state EXCEPT !.error = "ERR_ADD_POSITION"])
                ELSE IF found.kind # "ok" THEN Keep(MergeSearchErr(state, found))
                ELSE Done(found.new_place, found.search_results)
           [] op = REMOVE ->
                IF DayAtMinimum(places)
                THEN Keep([state EXCEPT !.status = REJECTED,
                                        !.change_summary = "SUM_MIN_PLACES"])
                ELSE Done(NoPlace, <<>>)
           [] op = MOVE ->
                IF IsCrossDayMove(intent.destination_day, target_day_num)
                THEN Keep([state EXCEPT !.status = REJECTED,
                                        !.change_summary = "SUM_CROSS_DAY"])
                ELSE Done(NoPlace, <<>>)

(***************************************************************************)
(* app/graph/modify/nodes/mutate.py: the mutate node of the modify graph,  *)
(* the variant of the engine that moves a place from one day to another.   *)
(***************************************************************************)
_RADIUS_KM == 10

RECURSIVE SumOver(_, _)
SumOver(values, k) == IF k = 0 THEN 0 ELSE values[k] + SumOver(values, k - 1)

\* the places of the day that have both coordinates, in order
CoordPlaces(day) == SelectSeq(day.places, LAMBDA pl : pl.latitude # NoCoord /\ pl.longitude # NoCoord)

\* _day_center as <<number of points, sum of latitudes, sum of longitudes>>:
\* the centre is the sums divided by the number, (0.0, 0.0) without points
_day_center(day) ==
    LET coords == CoordPlaces(day)
    IN  <<Len(coords),
          SumOver([k \in 1..Len(coords) |-> coords[k].latitude], Len(coords)),
          SumOver([k \in 1..Len(coords) |-> coords[k].longitude], Len(coords))>>

\* haversine_distance(center_lat, center_lon, p.latitude, p.longitude) <= _RADIUS_KM
\* for points of one meridian, both sides multiplied by the number of points
WithinRadius(center, place) ==
    MetersPerUnit * Abs(center[1] * place.latitude - center[2]) <= _RADIUS_KM * 1000 * center[1]

modify_place_to_course_place(place, visit_sequence) ==
    MkPlace(place.place_id, place.latitude, place.longitude, visit_sequence, EmptyText)

modify_suggest_alternative_keyword(keyword, reply) ==
    IF reply = "LLM_FAIL" THEN None
    ELSE IF reply # "" /\ reply # keyword THEN reply
    ELSE None

modify_search_place(intent, day, env) ==
    LET keyword == intent.search_keyword
        results == env.r1
        suggested == modify_suggest_alternative_keyword(keyword, env.suggest_reply)
        center == _day_center(day)
        filtered == SelectSeq(results, LAMBDA pl : WithinRadius(center, pl))
        kept == IF (center[1] # 0 /\ (center[2] # 0 \/ center[3] # 0)) /\ filtered # <<>>
                THEN filtered ELSE results
    IN  IF keyword = None \/ keyword = "" THEN SearchErr(<<>>, "ERR_NO_KEYWORD")
        ELSE IF env.raises THEN SearchErr(<<>>, "ERR_SEARCH_FAILED")
        ELSE IF results = <<>>
        THEN [kind |-> "ask", new_place |-> NoPlace, search_results |-> results,
              error |-> None, status |-> ASK_CLARIFICATION,
              change_summary |-> IF suggested # None THEN "SUM_NO_RESULTS_SUGGEST"
                                 ELSE "SUM_NO_RESULTS",
              suggested_keyword |-> suggested]
        ELSE [kind |-> "ok", new_place |-> kept[1], search_results |-> results,
              error |-> None, status |-> None, change_summary |-> None,
              suggested_keyword |-> None]

\* intent.get("destination_day", target_day_num), intent.get("destination_index", 1)
modify_destination_day(intent) ==
    IF intent.destination_day = 0 THEN intent.target_day ELSE intent.destination_day
modify_destination_index(intent) ==
    IF intent.destination_index = NoIndex THEN 1 ELSE intent.destination_index

modify_mutate(state, heap, env) ==
    LET intent == state.intent
        Keep(st) == [state |-> st, heap |-> heap]
    IN
    IF intent = NoIntent \/ state.current_itinerary = NoRef
    THEN Keep([state EXCEPT !.error = "ERR_MUTATE_NEEDS_INPUT"])
    ELSE
    LET op == intent.op
        target_day_num == intent.target_day
        target_index == intent.target_index
        ref == copy_deepcopy(state.current_itinerary)
        itinerary == heap[state.current_itinerary]
        d == _find_day(itinerary, target_day_num)
    IN
    IF d = 0 THEN Keep([state EXCEPT !.error = "ERR_DAY_NOT_FOUND"])
    ELSE
    LET day == itinerary.itinerary[d]
        places == day.places
        target_pos == target_index - 1
        found == modify_search_place(intent, day, env)
        Done(edited, diff_keys, search_results) ==
            [state |-> [state EXCEPT !.modified_itinerary = ref,
                                     !.diff_keys = diff_keys,
                                     !.warnings = state.warnings,
                                     !.search_results = search_results],
             heap |-> [heap EXCEPT ![ref] = edited]]
        InDay(new_places) == [itinerary EXCEPT !.itinerary[d].places = new_places]
    IN
    IF op \in {REPLACE, REMOVE, MOVE} /\ (target_pos < 0 \/ target_pos >= Len(places))
    THEN Keep([state EXCEPT !.error = "ERR_PLACE_NOT_FOUND"])
    ELSE CASE op = REPLACE ->
                IF found.kind # "ok" THEN Keep(MergeSearchErr(state, found))
                ELSE Done(InDay(ListSet(places, target_pos,
                                        modify_place_to_course_place(found.new_place,
                                                                     target_index))),
                          <<build_diff_key(target_day_num, target_index)>>,
                          found.search_results)
           [] op = ADD ->
                LET insert_pos == Min(target_pos, Len(places))
                IN  IF found.kind # "ok" THEN Keep(MergeSearchErr(state, found))
                    ELSE Done(InDay(reorder_visit_sequence(
                                       ListInsert(places, insert_pos,
                                                  modify_place_to_course_place(found.new_place, 0)))),
                              <<build_diff_key(target_day_num, insert_pos + 1)>>,
                              found.search_results)
           [] op = REMOVE ->
                Done(InDay(reorder_visit_sequence(ListPop(places, target_pos))),
                     <<build_diff_key(target_day_num, target_index)>>, <<>>)
           [] op = MOVE ->
                LET dest_day_num == modify_destination_day(intent)
                    dest_index == modify_destination_index(intent)
                    moved == places[target_pos + 1]
                    popped == ListPop(places, target_pos)
                IN  IF dest_day_num = target_day_num
                    THEN LET dest_pos == Min(dest_index - 1, Len(popped))
                         IN  Done(InDay(reorder_visit_sequence(
                                           ListInsert(popped, dest_pos, moved))),
                                  <<build_diff_key(target_day_num, dest_pos + 1)>>, <<>>)
                    ELSE
                    LET dd == _find_day(itinerary, dest_day_num)
                    IN  IF dd = 0 THEN Keep([state EXCEPT !.error = "ERR_DAY_NOT_FOUND"])
                        ELSE
                        LET dest_places == itinerary.itinerary[dd].places
                            dest_pos == Min(dest_index - 1, Len(dest_places))
                        IN  Done([itinerary EXCEPT
                                    !.itinerary[dd].places =
                                        reorder_visit_sequence(
                                            ListInsert(dest_places, dest_pos, moved)),
                                    !.itinerary[d].places = reorder_visit_sequence(popped)],
                                 <<build_diff_key(dest_day_num, dest_pos + 1)>>, <<>>)

(***************************************************************************)
(* app/graph/chat/nodes/cascade.py                                         *)
(***************************************************************************)
PLANNED == "PLANNED"
SPONTANEOUS == "SPONTANEOUS"
PlanningPreference == {PLANNED, SPONTANEOUS}

\* every day taken as modified
_extract_modified_days_All(diff_keys) == Nat

\* int(key.split("_")[0][3:]) for every key that starts with "day"
_extract_modified_days(diff_keys) ==
    {diff_keys[k][2] : k \in {j \in 1..Len(diff_keys) : diff_keys[j][1] = "day"}}

_resolve_output_mode(itinerary) ==
    IF itinerary.planning_preference = PLANNED THEN HHMM_MODE ELSE SECTION_EN

\* the proposals of every day handed to the day
ProposalsOfDay_AnyDay(visit_time_proposals, day_num) ==
    [k \in 1..Len(visit_time_proposals) |->
        <<visit_time_proposals[k][2], visit_time_proposals[k][3]>>]

\* visit_time_proposals.get(day_num, {}): proposals are <<day, sequence, text>>
ProposalsOfDay(visit_time_proposals, day_num) ==
    LET OfDay(p) == p[1] = day_num
        mine == SelectSeq(visit_time_proposals, OfDay)
    IN  [k \in 1..Len(mine) |-> <<mine[k][2], mine[k][3]>>]

\* ChatRoadmap.model_validate: schema_ok stands for the fields the model
\* does not detail (dates, counts, title, ...)
ChatRoadmapValid(itinerary) ==
    /\ itinerary.schema_ok
    /\ itinerary.planning_preference \in PlanningPreference
    /\ \A d \in 1..Len(itinerary.itinerary) :
          /\ itinerary.itinerary[d].day_number >= 1
          /\ \A k \in 1..Len(itinerary.itinerary[d].places) :
                itinerary.itinerary[d].places[k].visit_sequence >= 1

\* the per-day loop of cascade: days 1..n already processed
RECURSIVE CascadeDays(_, _, _, _, _, _)
CascadeDays(itinerary, n, modified_days, proposals, output_mode, warnings) ==
    IF n > Len(itinerary.itinerary) THEN [itinerary |-> itinerary, warnings |-> warnings]
    ELSE LET day == itinerary.itinerary[n]
         IN  IF day.day_number \notin modified_days \/ day.places = <<>>
             THEN CascadeDays(itinerary, n + 1, modified_days, proposals, output_mode, warnings)
             ELSE LET r == apply_visit_time_policy(day.places, day.day_number,
                                    ProposalsOfDay(proposals, day.day_number), output_mode)
                  IN  CascadeDays([itinerary EXCEPT !.itinerary[n].places = r.places],
                                  n + 1, modified_days, proposals, output_mode,
                                  warnings \o r.warnings)

cascade(state, heap) ==
    LET ref == state.modified_itinerary
    IN
    IF ref = NoRef
    THEN [state |-> [state EXCEPT !.error = "ERR_CASCADE_NEEDS_ITINERARY"], heap |-> heap]
    ELSE IF heap[ref].planning_preference \notin PlanningPreference
    THEN [state |-> [state EXCEPT !.status = REJECTED, !.error = "ERR_PLANNING_PREFERENCE"],
          heap |-> heap]
    ELSE
    LET r == CascadeDays(heap[ref], 1, _extract_modified_days(state.diff_keys),
                         state.visit_time_proposals, _resolve_output_mode(heap[ref]),
                         state.warnings)
        heap2 == [heap EXCEPT ![ref] = r.itinerary]
    IN  IF ~ChatRoadmapValid(r.itinerary)
        THEN [state |-> [state EXCEPT !.status = REJECTED, !.error = "ERR_SCHEMA",
                                      !.warnings = r.warnings],
              heap |-> heap2]
        ELSE [state |-> [state EXCEPT !.modified_itinerary = ref, !.warnings = r.warnings],
              heap |-> heap2]

(***************************************************************************)
(* app/graph/chat/nodes/respond.py                                         *)
(*   llm_reply: text of the response LLM, "LLM_FAIL" when the call raised  *)
(***************************************************************************)
MSG_INTERNAL_ERROR == "MSG_INTERNAL_ERROR"
MSG_FALLBACK == "MSG_FALLBACK"

\* the LLM call of respond raises, answers with blank text, or answers
LlmReplies == {"LLM_FAIL", "", "MSG_GENERATED"}

\* final_status = status, without the SUCCESS default
respond_NoDefaultStatus(state, llm_reply) ==
    IF state.error # None
    THEN [state EXCEPT !.status = REJECTED, !.message = MSG_INTERNAL_ERROR]
    ELSE [state EXCEPT !.message = IF llm_reply # "LLM_FAIL" THEN llm_reply
                                   ELSE MSG_FALLBACK]

\* the error text handed to the user as the message
respond_LeakError(state, llm_reply) ==
    IF state.error # None
    THEN [state EXCEPT !.status = REJECTED, !.message = state.error]
    ELSE LET generated ==
                IF llm_reply # "LLM_FAIL" THEN llm_reply
                ELSE IF state.change_summary # None /\ state.change_summary # ""
                     THEN state.change_summary
                ELSE MSG_FALLBACK
         IN  [state EXCEPT !.status = IF state.status # None THEN state.status ELSE SUCCESS,
                           !.message = generated]

respond(state, llm_reply) ==
    IF state.error # None
    THEN [state EXCEPT !.status = REJECTED, !.message = MSG_INTERNAL_ERROR]
    ELSE LET generated ==
                IF llm_reply # "LLM_FAIL" THEN llm_reply
                ELSE IF state.change_summary # None /\ state.change_summary # ""
                     THEN state.change_summary
                ELSE MSG_FALLBACK
         IN  [state EXCEPT !.status = IF state.status # None THEN state.status ELSE SUCCESS,
                           !.message = generated]

(***************************************************************************)
(* app/graph/chat/nodes/analyze_intent.py                                  *)
(* The user's text is one of a few representative requests; the keyword    *)
(* heuristics below are the values the code computes for these texts.      *)
(***************************************************************************)
Q_EMPTY == ""                        \* ""
Q_ITEM == "Q_ITEM"                   \* "1일차 2번째 장소 바꿔줘"
Q_DAY_CHANGE == "Q_DAY_CHANGE"       \* "1일차를 2일차로 바꿔줘"
Q_DAY_DELETE == "Q_DAY_DELETE"       \* "1일차 삭제해줘"
Q_AMBIGUOUS == "Q_AMBIGUOUS"         \* "1일차 방문지 삭제해줘"
Q_CHAT == "Q_CHAT"                   \* "이 일정 어때?"
Queries == {Q_EMPTY, Q_ITEM, Q_DAY_CHANGE, Q_DAY_DELETE, Q_AMBIGUOUS, Q_CHAT}

_has_modification_keyword(user_query) ==
    user_query \in {Q_ITEM, Q_DAY_CHANGE, Q_DAY_DELETE, Q_AMBIGUOUS}
_is_day_or_date_change_request(user_query) == user_query = Q_DAY_CHANGE
_is_explicit_day_delete_request(user_query) == user_query = Q_DAY_DELETE
_is_ambiguous_day_item_delete_request(user_query) == user_query = Q_AMBIGUOUS

GENERAL_CHAT == "GENERAL_CHAT"
MODIFICATION == "MODIFICATION"

ChatIntentRoute(intent_type, requested_action, target_scope) ==
    [intent_type |-> intent_type, requested_action |-> requested_action,
     target_scope |-> target_scope]

LlmFailed == ChatIntentRoute("LLM_FAIL", "UNKNOWN", "UNKNOWN")

\* the except branch left out: the failed call's route is passed on
_classify_intent_route_NoFallback(user_query, llm_route) == llm_route

\* llm_route: what the classifier LLM answered, LlmFailed when it raised or
\* its output did not parse
_classify_intent_route(user_query, llm_route) ==
    IF llm_route # LlmFailed THEN llm_route
    ELSE IF _is_day_or_date_change_request(user_query)
         THEN ChatIntentRoute(MODIFICATION, "MOVE", "DAY_LEVEL")
    ELSE IF _is_explicit_day_delete_request(user_query)
         THEN ChatIntentRoute(MODIFICATION, "DELETE", "DAY_LEVEL")
    ELSE IF _is_ambiguous_day_item_delete_request(user_query)
         THEN ChatIntentRoute(MODIFICATION, "DELETE", "UNKNOWN")
    ELSE IF _has_modification_keyword(user_query)
         THEN ChatIntentRoute(MODIFICATION, "UNKNOWN", "UNKNOWN")
    ELSE ChatIntentRoute(GENERAL_CHAT, "UNKNOWN", "UNKNOWN")

\* ChatIntent.model_validate: MOVE needs both destination fields
ChatIntentValid(draft) ==
    \/ draft.needs_clarification
    \/ draft.op # MOVE
    \/ (draft.destination_day # 0 /\ draft.destination_index # NoIndex)

\* llm_draft: the ChatIntentDraft the LLM answered, NoIntent when the call
\* raised or its output could not be recovered
analyze_intent(state, llm_route, llm_draft) ==
    IF state.current_itinerary = NoRef \/ state.user_query = Q_EMPTY
    THEN [state EXCEPT !.error = "ERR_INTENT_NEEDS_INPUT"]
    ELSE
    LET route == _classify_intent_route(state.user_query, llm_route)
    IN  IF route.intent_type = GENERAL_CHAT
        THEN [state EXCEPT !.intent_type = GENERAL_CHAT]
        ELSE IF route.requested_action = "DELETE" /\ route.target_scope = "DAY_LEVEL"
        THEN [state EXCEPT !.intent_type = MODIFICATION, !.status = REJECTED,
                           !.change_summary = "SUM_DAY_DELETE"]
        ELSE IF route.requested_action = "DELETE" /\ route.target_scope = "UNKNOWN"
        THEN [state EXCEPT !.intent_type = MODIFICATION, !.status = ASK_CLARIFICATION,
                           !.change_summary = "SUM_DELETE_AMBIGUOUS"]
        ELSE IF route.target_scope = "DAY_LEVEL"
                \/ _is_day_or_date_change_request(state.user_query)
        THEN [state EXCEPT !.intent_type = MODIFICATION, !.status = REJECTED,
                           !.change_summary = "SUM_DAY_CHANGE"]
        ELSE IF llm_draft = NoIntent
        THEN [state EXCEPT !.error = "ERR_INTENT_PARSE"]
        ELSE IF llm_draft.needs_clarification \/ ~ChatIntentValid(llm_draft)
        THEN [state EXCEPT !.intent_type = MODIFICATION, !.intent = llm_draft,
                           !.status = ASK_CLARIFICATION,
                           !.change_summary = "SUM_REASONING"]
        ELSE [state EXCEPT !.intent_type = MODIFICATION, !.intent = llm_draft]

(***************************************************************************)
(* app/graph/chat/workflow.py                                              *)
(***************************************************************************)
_route_after_intent(state) ==
    IF state.error # None THEN "respond"
    ELSE IF state.status = ASK_CLARIFICATION THEN "respond"
    ELSE "mutate"

\* only the error test: a clarification request goes on to cascade
_route_after_mutate_ErrorOnly(state) ==
    IF state.error # None THEN "respond" ELSE "cascade"

_route_after_mutate(state) ==
    IF state.error # None THEN "respond"
    ELSE IF state.status = ASK_CLARIFICATION THEN "respond"
    ELSE "cascade"

(***************************************************************************)
(* app/services/chat_service.py: run_chat_pipeline, the ChatResponse built *)
(* from the final graph state                                              *)
(***************************************************************************)
MSG_PIPELINE_ERROR == "MSG_PIPELINE_ERROR"

\* the error branch passing the itinerary and the diff keys on
ChatResponse_KeepItinerary(result, heap) ==
    [status |-> IF result.error # None THEN REJECTED
                ELSE IF result.status # None THEN result.status ELSE SUCCESS,
     modified_itinerary |-> IF result.modified_itinerary = NoRef THEN NoItinerary
                            ELSE heap[result.modified_itinerary],
     message |-> IF result.message # None /\ result.message # "" THEN result.message
                 ELSE IF result.error # None THEN MSG_PIPELINE_ERROR
                 ELSE IF result.change_summary # None /\ result.change_summary # ""
                      THEN result.change_summary
                 ELSE "",
     diff_keys |-> result.diff_keys]

ChatResponse(result, heap) ==
    IF result.error # None
    THEN [status |-> REJECTED,
          modified_itinerary |-> NoItinerary,
          message |-> IF result.message # None /\ result.message # ""
                      THEN result.message ELSE MSG_PIPELINE_ERROR,
          diff_keys |-> <<>>]
    ELSE [status |-> IF result.status # None THEN result.status ELSE SUCCESS,
          modified_itinerary |-> IF result.modified_itinerary = NoRef THEN NoItinerary
                                 ELSE heap[result.modified_itinerary],
          message |-> IF result.message # None /\ result.message # "" THEN result.message
                      ELSE IF result.change_summary # None /\ result.change_summary # ""
                           THEN result.change_summary
                      ELSE "",
          diff_keys |-> result.diff_keys]

\* initial_state of run_chat_pipeline: the dumped itinerary is object 1
InitialState(user_query) ==
    [current_itinerary |-> 1, user_query |-> user_query,
     intent_type |-> None, intent |-> NoIntent, search_results |-> <<>>,
     warnings |-> <<>>, visit_time_proposals |-> <<>>,
     modified_itinerary |-> NoRef, status |-> None, change_summary |-> None,
     message |-> None, diff_keys |-> <<>>, suggested_keyword |-> None, error |-> None]

(***************************************************************************)
(* Inputs of the model.                                                    *)
(***************************************************************************)
MaxDay == 3          \* intents name days 1..MaxDay; the itineraries have days 1 and 2

TimedPlaces(first_id, n, step) ==
    [k \in 1..n |-> MkPlace(first_id + k - 1, NoCoord, NoCoord, k,
                            format_minutes_to_hhmm(_DEFAULT_START_MINUTES + step * (k - 1)))]

\* the fixture of the tests: three places on day 1, one on day 2
ItinA == [planning_preference |-> PLANNED, schema_ok |-> TRUE,
          itinerary |-> <<
            MkDay(1, <<MkPlace(101, 0, 0, 1, HHMM(9, 0)),
                       MkPlace(102, 1, 0, 2, HHMM(12, 0)),
                       MkPlace(103, 3, 0, 3, HHMM(14, 30))>>),
            MkDay(2, <<MkPlace(201, 5, 0, 1, HHMM(10, 0))>>) >>]

\* a nearly full and a full day, places without coordinates
ItinB == [planning_preference |-> PLANNED, schema_ok |-> TRUE,
          itinerary |-> << MkDay(1, TimedPlaces(101, _MAX_PLACES_PER_DAY - 1, 90)),
                           MkDay(2, TimedPlaces(201, _MAX_PLACES_PER_DAY, 90)) >>]

\* section labels, AM/PM and free texts as visit_time
ItinC == [planning_preference |-> SPONTANEOUS, schema_ok |-> TRUE,
          itinerary |-> <<
            MkDay(1, <<MkPlace(101, 0, 0, 1, Section("MORNING")),
                       MkPlace(102, 4, 0, 2, <<"PM", 1, 0>>)>>),
            MkDay(2, <<MkPlace(201, 5, 0, 1, FreeText),
                       MkPlace(202, NoCoord, NoCoord, 2, Section("NIGHT"))>>) >>]

\* a raw dict without planning_preference (as the fixture of the tests)
ItinD == [planning_preference |-> None, schema_ok |-> TRUE,
          itinerary |-> << MkDay(1, TimedPlaces(101, 2, 120)),
                           MkDay(2, TimedPlaces(201, 1, 120)) >>]

\* a document whose other fields do not validate
ItinE == [planning_preference |-> PLANNED, schema_ok |-> FALSE,
          itinerary |-> << MkDay(1, TimedPlaces(101, 2, 120)),
                           MkDay(2, TimedPlaces(201, 1, 120)) >>]

InitialItineraries == {ItinA, ItinB, ItinC, ItinD, ItinE}

MkIntent(op, d, i, dd, di, kw, nc) ==
    [op |-> op, target_day |-> d, target_index |-> i, destination_day |-> dd,
     destination_index |-> di, search_keyword |-> kw, needs_clarification |-> nc]

Drafts ==
    {MkIntent(op, d, i, 0, NoIndex, kw, FALSE) :
        op \in {REPLACE, ADD}, d \in 1..MaxDay, i \in 1..MaxIndex, kw \in {"K", None}}
    \cup {MkIntent(REMOVE, d, i, 0, NoIndex, None, FALSE) : d \in 1..MaxDay, i \in 1..MaxIndex}
    \cup {MkIntent(MOVE, d, i, dd, di, None, FALSE) :
            d \in 1..MaxDay, i \in 1..MaxIndex, dd \in 1..2, di \in 1..MaxIndex}
    \cup {MkIntent(REMOVE, 1, 1, 0, NoIndex, None, TRUE),
          MkIntent(MOVE, 1, 1, 0, NoIndex, None, FALSE)}

Routes ==
    {LlmFailed, ChatIntentRoute(GENERAL_CHAT, "UNKNOWN", "UNKNOWN")}
    \cup {ChatIntentRoute(MODIFICATION, a, sc) :
            a \in {"DELETE", "ADD", "REPLACE", "MOVE", "UNKNOWN"},
            sc \in {"DAY_LEVEL", "ITEM_LEVEL", "UNKNOWN"}}

Cand1 == [place_id |-> 901, latitude |-> 1, longitude |-> 0]
Cand2 == [place_id |-> 902, latitude |-> 2, longitude |-> 0]
CandFar == [place_id |-> 903, latitude |-> 60, longitude |-> 0]
ResultLists == {<<>>, <<Cand1>>, <<Cand1, Cand2>>, <<CandFar, Cand1>>}

MkEnv(raises, r1, r2, r3, sg, rr) ==
    [raises |-> raises, r1 |-> r1, r2 |-> r2, r3 |-> r3,
     suggest_reply |-> sg, rerank_reply |-> rr]

QuietEnv == MkEnv(FALSE, <<>>, <<>>, <<>>, "LLM_FAIL", NoPlaceId)

\* the outside world is only consulted by REPLACE and ADD
Envs(op) ==
    IF op \in {REPLACE, ADD}
    THEN {MkEnv(raises, r1, r2, r3, sg, rr) :
            raises \in BOOLEAN, r1 \in ResultLists, r2 \in ResultLists, r3 \in ResultLists,
            sg \in {"LLM_FAIL", "", "K", "K2"}, rr \in {NoPlaceId, 902, 777}}
    ELSE {QuietEnv}

(***************************************************************************)
(* The state machine: one request through the graph, then the caller's     *)
(* next request.                                                           *)
(***************************************************************************)
VARIABLES node, state, heap, submitted, visited, edits

vars == <<node, state, heap, submitted, visited, edits>>

Init ==
    /\ node = "analyze_intent"
    /\ \E q \in Queries : state = InitialState(q)
    /\ \E it \in InitialItineraries :
          /\ heap = [r \in 1..2 |-> IF r = 1 THEN it ELSE NoItinerary]
          /\ submitted = it
    /\ visited = <<>>
    /\ edits = 0

AnalyzeIntent ==
    /\ node = "analyze_intent"
    /\ \E llm_route \in Routes, llm_draft \in Drafts \cup {NoIntent} :
          /\ state' = analyze_intent(state, llm_route, llm_draft)
          /\ node' = _route_after_intent(state')
    /\ visited' = Append(visited, "analyze_intent")
    /\ UNCHANGED <<heap, submitted, edits>>

Mutate ==
    /\ node = "mutate"
    /\ \E env \in Envs(state.intent.op) :
          LET r == mutate(state, heap, env)
          IN  /\ state' = r.state
              /\ heap' = r.heap
              /\ node' = _route_after_mutate(r.state)
    /\ visited' = Append(visited, "mutate")
    /\ UNCHANGED <<submitted, edits>>

Cascade ==
    /\ node = "cascade"
    /\ LET r == cascade(state, heap)
       IN  /\ state' = r.state
           /\ heap' = r.heap
    /\ node' = "respond"
    /\ visited' = Append(visited, "cascade")
    /\ UNCHANGED <<submitted, edits>>

Respond ==
    /\ node = "respond"
    /\ \E llm_reply \in LlmReplies :
          state' = respond(state, llm_reply)
    /\ node' = "END"
    /\ visited' = Append(visited, "respond")
    /\ UNCHANGED <<heap, submitted, edits>>

Next == AnalyzeIntent \/ Mutate \/ Cascade \/ Respond

Spec == Init /\ [][Next]_vars

(***************************************************************************)
(* A session: the caller sends one edit request after the other, each with *)
(* the itinerary it holds.  One turn is one run of the compiled graph      *)
(* (compiled_chat_graph.ainvoke), taken as a single step.                  *)
(***************************************************************************)
\* The results of the nodes of one run, each bound before the next node
\* runs: s1 after analyze_intent, m after mutate (if routed there), c after
\* cascade (if routed there); the run ends with respond.
RunGraph(itinerary, user_query, llm_route, llm_draft, env, llm_reply) ==
    LET h0 == [r \in 1..2 |-> IF r = 1 THEN itinerary ELSE NoItinerary]
        Final(st, hp, vs) ==
            [state |-> respond(st, llm_reply), heap |-> hp,
             visited |-> Append(vs, "respond")]
        AfterCascade(m) ==
            {Final(c.state, c.heap, <<"analyze_intent", "mutate", "cascade">>) :
                c \in {cascade(m.state, m.heap)}}
        AfterMutate(s1) ==
            UNION {IF _route_after_mutate(m.state) = "respond"
                   THEN {Final(m.state, m.heap, <<"analyze_intent", "mutate">>)}
                   ELSE AfterCascade(m) : m \in {mutate(s1, h0, env)}}
        AfterIntent ==
            UNION {IF _route_after_intent(s1) = "respond"
                   THEN {Final(s1, h0, <<"analyze_intent">>)}
                   ELSE AfterMutate(s1) :
                        s1 \in {analyze_intent(InitialState(user_query), llm_route, llm_draft)}}
    IN  CHOOSE r \in AfterIntent : TRUE

\* the itinerary the caller holds after a response: the returned one after
\* a SUCCESS, the one it sent otherwise
HeldItinerary ==
    LET response == ChatResponse(state, heap)
    IN  IF response.status = SUCCESS /\ response.modified_itinerary # NoItinerary
        THEN response.modified_itinerary
        ELSE submitted

\* in a session the resolver finds one place for every keyword
SessionEnv == MkEnv(FALSE, <<Cand1>>, <<>>, <<>>, "LLM_FAIL", NoPlaceId)

SessionDrafts == {dr \in Drafts : dr.search_keyword = "K" \/ dr.op \in {REMOVE, MOVE}}

InitSession ==
    /\ node = "END"
    /\ state = InitialState(Q_ITEM)
    /\ \E it \in {ItinA, ItinB} :
          /\ heap = [r \in 1..2 |-> IF r = 1 THEN it ELSE NoItinerary]
          /\ submitted = it
    /\ visited = <<>>
    /\ edits = 0

SessionTurn ==
    /\ node = "END"
    /\ edits < MaxEdits
    /\ \E llm_draft \in SessionDrafts, held \in {HeldItinerary} :
          \E r \in {RunGraph(held, Q_ITEM,
                             ChatIntentRoute(MODIFICATION, "UNKNOWN", "ITEM_LEVEL"),
                             llm_draft, SessionEnv, "MSG_GENERATED")} :
              /\ state' = r.state
              /\ heap' = r.heap
              /\ visited' = r.visited
    /\ submitted' = HeldItinerary
    /\ edits' = edits + 1
    /\ UNCHANGED node

NextSession == SessionTurn

SpecSession == InitSession /\ [][NextSession]_vars

(***************************************************************************)
(* Verification.                                                           *)
(***************************************************************************)
DayLengthsOk(itinerary) ==
    \A d \in 1..Len(itinerary.itinerary) :
        /\ Len(itinerary.itinerary[d].places) >= _MIN_PLACES_PER_DAY
        /\ Len(itinerary.itinerary[d].places) <= _MAX_PLACES_PER_DAY

Dense(places) == \A p \in 1..Len(places) : places[p].visit_sequence = p

\* the response the caller receives for the request just processed
Response == ChatResponse(state, heap)
Succeeded == Response.status = SUCCESS /\ Response.modified_itinerary # NoItinerary

\* the day of the submitted itinerary the last intent names (0 if none)
TargetDay == _find_day(submitted, state.intent.target_day)
TargetLen == Len(submitted.itinerary[TargetDay].places)

\* C1: in a session that starts from an itinerary whose days hold 1..10
\* places, after every turn every day of the itinerary the caller holds (and
\* of every returned itinerary) still holds 1..10 places; an ADD on a day
\* of 10 places and a REMOVE on a day of 1 place that reach mutate are
\* refused (REJECTED, no itinerary returned) and the caller's itinerary
\* stays as it was.
C1_PlaceCountWithinBounds ==
    /\ DayLengthsOk(HeldItinerary)
    /\ Succeeded => DayLengthsOk(Response.modified_itinerary)
    /\ ( /\ edits > 0
         /\ visited # <<>> /\ "mutate" \in {visited[k] : k \in 1..Len(visited)}
         /\ TargetDay # 0
         /\ \/ state.intent.op = ADD /\ TargetLen = _MAX_PLACES_PER_DAY
            \/ state.intent.op = REMOVE /\ TargetLen = _MIN_PLACES_PER_DAY )
       => /\ Response.status = REJECTED
          /\ Response.modified_itinerary = NoItinerary
          /\ state.modified_itinerary = NoRef
          /\ HeldItinerary = submitted
          /\ heap[1] = submitted

\* a day filled up to 10 places by an earlier ADD of the session, on which a
\* further ADD has just been refused
C1_Witness ==
    /\ edits >= 2
    /\ state.intent.op = ADD
    /\ state.intent.target_day = 1
    /\ Len(submitted.itinerary[1].places) = _MAX_PLACES_PER_DAY
    /\ Response.status = REJECTED

\* C2: in a session that starts with visit_sequence = position in every
\* day, after every successful edit the places of the edited day carry
\* visit_sequence 1..N in array order (position p, 0-based, has p + 1), and
\* so does every day of the itinerary the caller holds.
C2_VisitSequenceDense ==
    /\ \A d \in 1..Len(HeldItinerary.itinerary) : Dense(HeldItinerary.itinerary[d].places)
    /\ (edits > 0 /\ Succeeded)
       => Dense(Response.modified_itinerary.itinerary[TargetDay].places)

\* a successful REMOVE that follows an earlier successful edit
C2_Witness ==
    /\ edits >= 2
    /\ Succeeded
    /\ state.intent.op = REMOVE
    /\ submitted \notin {ItinA, ItinB}

\* C3: whatever the operation and the outcome, the itinerary the request
\* came with is never changed: at every point of the run current_itinerary
\* still refers to an itinerary equal to the submitted one, and a modified
\* itinerary is a different object.
C3_CurrentItineraryUntouched ==
    /\ state.current_itinerary = 1
    /\ heap[state.current_itinerary] = submitted
    /\ state.modified_itinerary # NoRef
       => state.modified_itinerary # state.current_itinerary

\* a request that went through mutate and cascade and returned an edited
\* itinerary that differs from the submitted one
C3_Witness ==
    /\ node = "END"
    /\ visited = <<"analyze_intent", "mutate", "cascade", "respond">>
    /\ state.modified_itinerary # NoRef
    /\ heap[state.modified_itinerary] # submitted
    /\ state.status = SUCCESS

\* C4: right after classify the request is at respond exactly when classify
\* recorded an error, asked for clarification or rejected a day/date-level
\* change or delete request; otherwise it is at mutate.
C4_ClassifyRouting ==
    visited = <<"analyze_intent">>
    => ( node = "respond"
         <=> ( \/ state.error # None
               \/ state.status = ASK_CLARIFICATION
               \/ state.status = REJECTED ) )
       /\ node \in {"respond", "mutate"}

\* C5: right after mutate the request is at respond whenever mutate ended
\* with an error, ASK_CLARIFICATION or REJECTED, and it is at cascade only
\* when mutate produced a modified itinerary.
C5_MutateRouting ==
    visited = <<"analyze_intent", "mutate">>
    => /\ ( \/ state.error # None
            \/ state.status = ASK_CLARIFICATION
            \/ state.status = REJECTED ) => node = "respond"
       /\ node = "cascade" => state.modified_itinerary # NoRef

(***************************************************************************)
(* The graph runtime runs every scheduled node: a request never stops in   *)
(* the middle of the graph.  cascade is a total function of the state, so  *)
(* the cascade node is runnable exactly when it is scheduled.              *)
(***************************************************************************)
CascadeScheduled ==
    /\ node = "cascade"
    /\ node' = "respond"
    /\ visited' = Append(visited, "cascade")

SpecFair ==
    /\ Spec
    /\ WF_vars(AnalyzeIntent)
    /\ WF_vars(Mutate)
    /\ WF_<<node, visited>>(CascadeScheduled)
    /\ WF_vars(Respond)

VisitOrders ==
    { <<>>,
      <<"analyze_intent">>,
      <<"analyze_intent", "respond">>,
      <<"analyze_intent", "mutate">>,
      <<"analyze_intent", "mutate", "respond">>,
      <<"analyze_intent", "mutate", "cascade">>,
      <<"analyze_intent", "mutate", "cascade", "respond">> }

C6_OrderOk ==
    /\ visited \in VisitOrders
    /\ visited = <<>> <=> node = "analyze_intent"
    /\ node = "END" <=> (visited # <<>> /\ visited[Len(visited)] = "respond")

C6_FinalOk ==
    node = "END"
    => /\ state.status \in {SUCCESS, REJECTED, ASK_CLARIFICATION}
       /\ state.message # None
       /\ Response.status = state.status
       /\ Response.message # None

InputError ==
    \/ state.change_summary \in {"SUM_DAY_DELETE", "SUM_DAY_CHANGE"}
    \/ /\ "mutate" \in {visited[k] : k \in 1..Len(visited)}
       /\ state.intent # NoIntent
       /\ \/ TargetDay = 0
          \/ /\ TargetDay # 0
             /\ \/ /\ state.intent.op \in {REPLACE, REMOVE, MOVE}
                   /\ state.intent.target_index > TargetLen
                \/ /\ state.intent.op = ADD
                   /\ state.intent.target_index > TargetLen + 1
                \/ /\ state.intent.op \in {REPLACE, ADD}
                   /\ state.intent.search_keyword = None

\* C7: a request with an input error ends REJECTED with a message of its
\* own: the error marker is not set and the message is not the generic
\* internal-error message.
C7_InputErrorsAreRejections ==
    (node = "END" /\ InputError)
    => /\ state.status = REJECTED
       /\ state.error = None
       /\ state.message # MSG_INTERNAL_ERROR

\* the edited itinerary and the places of the edited day, before and after
Edited == heap[state.modified_itinerary]
OldPlaces == submitted.itinerary[TargetDay].places
NewPlaces == Edited.itinerary[TargetDay].places

Applied(op) == state.modified_itinerary # NoRef /\ state.intent.op = op

SamePlace(a, b) ==
    /\ a.place_id = b.place_id
    /\ a.latitude = b.latitude /\ a.longitude = b.longitude
    /\ a.visit_sequence = b.visit_sequence

OtherDaysKept ==
    /\ Len(Edited.itinerary) = Len(submitted.itinerary)
    /\ \A d \in 1..Len(submitted.itinerary) :
          /\ Edited.itinerary[d].day_number = submitted.itinerary[d].day_number
          /\ d # TargetDay
             => /\ Len(Edited.itinerary[d].places) = Len(submitted.itinerary[d].places)
                /\ \A p \in 1..Len(submitted.itinerary[d].places) :
                      SamePlace(Edited.itinerary[d].places[p],
                                submitted.itinerary[d].places[p])

OneDiffKey(i) ==
    state.diff_keys = << <<"day", state.intent.target_day, "_place", i>> >>

\* C8: an applied REPLACE at (day d, index i) puts the first candidate of
\* the resolver's list at position i of day d with visit_sequence i, keeps
\* every other place of day d and every place of the other days (identity,
\* order, visit_sequence), and emits the one diff key day{d}_place{i}.
C8_ReplaceOverwritesOnePlace ==
    Applied(REPLACE)
    => LET i == state.intent.target_index
       IN  /\ 1 <= i /\ i <= Len(OldPlaces)
           /\ Len(NewPlaces) = Len(OldPlaces)
           /\ state.search_results # <<>>
           /\ NewPlaces[i].place_id = state.search_results[1].place_id
           /\ NewPlaces[i].latitude = state.search_results[1].latitude
           /\ NewPlaces[i].visit_sequence = i
           /\ \A p \in 1..Len(OldPlaces) : p # i => SamePlace(NewPlaces[p], OldPlaces[p])
           /\ OtherDaysKept
           /\ OneDiffKey(i)

\* the scenario of the tests: REPLACE at index 2 of the 3-place day 1
C8_Witness ==
    /\ node = "END"
    /\ Applied(REPLACE)
    /\ submitted = ItinA
    /\ state.intent.target_day = 1
    /\ state.intent.target_index = 2
    /\ state.status = SUCCESS

\* C9: an applied ADD at index i into a day of n places has n < 10 and
\* 1 <= i <= n + 1, yields n + 1 places with the new place at position i
\* and the former places in their order around it, visit_sequence 1..n+1,
\* and the one diff key day{d}_place{i}; an ADD with an index outside
\* [1, n+1] leaves no modified itinerary.
C9_AddInsertsAtIndex ==
    /\ Applied(ADD)
       => LET i == state.intent.target_index
              n == Len(OldPlaces)
          IN  /\ n < _MAX_PLACES_PER_DAY
              /\ 1 <= i /\ i <= n + 1
              /\ Len(NewPlaces) = n + 1
              /\ state.search_results # <<>>
              /\ NewPlaces[i].place_id = state.search_results[1].place_id
              /\ \A p \in 1..n :
                    LET q == IF p < i THEN p ELSE p + 1
                    IN  /\ NewPlaces[q].place_id = OldPlaces[p].place_id
                        /\ NewPlaces[q].latitude = OldPlaces[p].latitude
              /\ Dense(NewPlaces)
              /\ OtherDaysKept
              /\ OneDiffKey(i)
    /\ ( /\ state.intent.op = ADD
         /\ TargetDay # 0
         /\ \/ state.intent.target_index < 1
            \/ state.intent.target_index > TargetLen + 1 )
       => state.modified_itinerary = NoRef

\* an ADD in the middle of the 3-place day 1
C9_Witness ==
    /\ node = "END"
    /\ Applied(ADD)
    /\ submitted = ItinA
    /\ state.intent.target_day = 1
    /\ state.intent.target_index = 2
    /\ state.status = SUCCESS

\* C10: an applied REMOVE at index i of a day of n places has n > 1 and
\* 1 <= i <= n, deletes the place at position i only, keeps the other
\* n - 1 places in their order with visit_sequence 1..n-1, and emits the
\* one diff key day{d}_place{i}.
C10_RemoveDeletesOnePlace ==
    Applied(REMOVE)
    => LET i == state.intent.target_index
           n == Len(OldPlaces)
       IN  /\ n > _MIN_PLACES_PER_DAY
           /\ 1 <= i /\ i <= n
           /\ Len(NewPlaces) = n - 1
           /\ \A p \in 1..(n - 1) :
                 LET q == IF p < i THEN p ELSE p + 1
                 IN  /\ NewPlaces[p].place_id = OldPlaces[q].place_id
                     /\ NewPlaces[p].latitude = OldPlaces[q].latitude
           /\ Dense(NewPlaces)
           /\ OtherDaysKept
           /\ OneDiffKey(i)

\* a REMOVE of the first of the three places of day 1
C10_Witness ==
    /\ node = "END"
    /\ Applied(REMOVE)
    /\ submitted = ItinA
    /\ state.intent.target_day = 1
    /\ state.intent.target_index = 1
    /\ Len(NewPlaces) = 2
    /\ state.status = SUCCESS

ReachedMutate == "mutate" \in {visited[k] : k \in 1..Len(visited)}

\* the places of a list without the one at position i (1-based)
Without(places, i) ==
    [k \in 1..(Len(places) - 1) |-> IF k < i THEN places[k] ELSE places[k + 1]]

SameIdentity(a, b) ==
    /\ a.place_id = b.place_id
    /\ a.latitude = b.latitude /\ a.longitude = b.longitude

\* C11: an applied same-day MOVE from index i to destination index j in a
\* day of n places yields the same n places with the moved place at
\* position min(j, n), the other places in their former order,
\* visit_sequence 1..n, and the one diff key day{d}_place{min(j, n)}.
C11_MoveReinsertsAtDestination ==
    Applied(MOVE)
    => LET i == state.intent.target_index
           j == state.intent.destination_index
           n == Len(OldPlaces)
           final == IF j <= n THEN j ELSE n
       IN  /\ 1 <= i /\ i <= n /\ 1 <= j
           /\ state.intent.destination_day = state.intent.target_day
           /\ Len(NewPlaces) = n
           /\ SameIdentity(NewPlaces[final], OldPlaces[i])
           /\ \A k \in 1..(n - 1) :
                 SameIdentity(Without(NewPlaces, final)[k], Without(OldPlaces, i)[k])
           /\ Dense(NewPlaces)
           /\ OtherDaysKept
           /\ OneDiffKey(final)

\* the scenario of the tests: MOVE 1 -> 3 in the 3-place day 1
C11_Witness ==
    /\ node = "END"
    /\ Applied(MOVE)
    /\ submitted = ItinA
    /\ state.intent.target_day = 1
    /\ state.intent.target_index = 1
    /\ state.intent.destination_index = 3
    /\ [k \in 1..3 |-> NewPlaces[k].place_id] = <<102, 103, 101>>
    /\ state.diff_keys = << <<"day", 1, "_place", 3>> >>
    /\ state.status = SUCCESS

\* a MOVE of an existing place to another day that has reached mutate
CrossDayMoveRequested ==
    /\ ReachedMutate
    /\ state.intent.op = MOVE
    /\ TargetDay # 0
    /\ state.intent.target_index <= TargetLen
    /\ state.intent.destination_day # state.intent.target_day

\* C12: a MOVE whose destination_day differs from target_day is refused:
\* the response is REJECTED without itinerary and without diff key, no
\* modified itinerary exists, and the submitted itinerary (source and
\* destination day) is as it was.
C12_CrossDayMoveRefused ==
    CrossDayMoveRequested
    => /\ Response.status = REJECTED
       /\ Response.modified_itinerary = NoItinerary
       /\ Response.diff_keys = <<>>
       /\ state.modified_itinerary = NoRef
       /\ state.diff_keys = <<>>
       /\ heap[1] = submitted
       /\ heap[2] = NoItinerary

\* a finished request that asked to move place 1 of day 1 to day 2
C12_Witness ==
    /\ node = "END"
    /\ CrossDayMoveRequested
    /\ submitted = ItinA
    /\ state.intent.target_day = 1
    /\ state.intent.destination_day = 2
    /\ Response.status = REJECTED

\* the last request of the session was a REMOVE on a 1-place day or an ADD
\* on a 10-place day, and it reached mutate
RefusedAtLimit ==
    /\ edits > 0
    /\ ReachedMutate
    /\ TargetDay # 0
    /\ \/ state.intent.op = REMOVE /\ TargetLen = _MIN_PLACES_PER_DAY
       \/ state.intent.op = ADD /\ TargetLen = _MAX_PLACES_PER_DAY

C13_RefusedShape ==
    RefusedAtLimit
    => /\ Response.status = REJECTED
       /\ Response.modified_itinerary = NoItinerary
       /\ Response.diff_keys = <<>>
       /\ HeldItinerary = submitted

C13_SameRequestAgain ==
    (RefusedAtLimit /\ state'.intent = state.intent)
    => /\ submitted' = submitted
       /\ Response' = Response

\* C13: a REMOVE on a day of exactly 1 place and an ADD on a day of 10
\* places end REJECTED, without modified itinerary and with no diff key, and
\* the same request submitted again against the unchanged itinerary gets
\* the same response.
C13_LimitRefusalIsIdempotent ==
    /\ []C13_RefusedShape
    /\ [][C13_SameRequestAgain]_vars

\* the second of two identical refused REMOVE requests on the 1-place day
C13_Witness ==
    /\ edits = 2
    /\ RefusedAtLimit
    /\ state.intent.op = REMOVE
    /\ submitted = ItinA
    /\ state.intent.target_day = 2
    /\ Response.status = REJECTED

\* at the mutate node, a REPLACE or ADD that passes mutate's own checks and
\* so asks the resolver
AsksResolver ==
    /\ node = "mutate"
    /\ state.intent # NoIntent
    /\ state.intent.op \in {REPLACE, ADD}
    /\ state.intent.search_keyword \notin {None, ""}
    /\ TargetDay # 0
    /\ state.intent.op = REPLACE => state.intent.target_index <= TargetLen
    /\ state.intent.op = ADD => /\ TargetLen < _MAX_PLACES_PER_DAY
                                /\ state.intent.target_index <= TargetLen + 1

DayBox == _day_bbox(submitted.itinerary[TargetDay])

\* the candidates of the first stage that lie in the day's rectangle
InBox(results) ==
    LET Keep(p) == DayBox = NoBbox \/ BboxContains(DayBox, p.latitude, p.longitude)
    IN  SelectSeq(results, Keep)

\* the list the resolver ends with: the first stage that has candidates
ResolverList(env) ==
    IF InBox(env.r1) # <<>> THEN InBox(env.r1)
    ELSE IF DayBox # NoBbox /\ env.r2 # <<>> THEN env.r2
    ELSE env.r3

NoCandidateEnvs ==
    {env \in Envs(state.intent.op) : ~env.raises /\ ResolverList(env) = <<>>}

NoResultSummaries == {"SUM_NO_RESULTS", "SUM_NO_RESULTS_SUGGEST"}

\* C14: when no resolver stage has a candidate for a REPLACE or ADD, mutate
\* answers ASK_CLARIFICATION, makes no modified itinerary and no diff key,
\* leaves the itineraries alone, and the request goes to respond and never
\* enters cascade.
C14_NoCandidateAsksClarification ==
    /\ AsksResolver
       => \A env \in NoCandidateEnvs :
             LET r == mutate(state, heap, env)
             IN  /\ r.state.status = ASK_CLARIFICATION
                 /\ r.state.error = None
                 /\ r.state.modified_itinerary = NoRef
                 /\ r.state.diff_keys = <<>>
                 /\ r.state.search_results = <<>>
                 /\ r.state.change_summary \in NoResultSummaries
                 /\ r.heap = heap
                 /\ _route_after_mutate(r.state) = "respond"
    /\ (ReachedMutate /\ state.change_summary \in NoResultSummaries)
       => /\ "cascade" \notin {visited[k] : k \in 1..Len(visited)}
          /\ node \in {"respond", "END"}
          /\ state.modified_itinerary = NoRef
          /\ state.diff_keys = <<>>
          /\ heap[2] = NoItinerary
          /\ Response.status = ASK_CLARIFICATION
          /\ Response.modified_itinerary = NoItinerary

\* a REPLACE for which nothing was found, answered
C14_Witness ==
    /\ node = "END"
    /\ visited = <<"analyze_intent", "mutate", "respond">>
    /\ state.intent.op = REPLACE
    /\ state.change_summary = "SUM_NO_RESULTS"
    /\ state.status = ASK_CLARIFICATION

Ids(results) == {results[k].place_id : k \in 1..Len(results)}

IsPermutation(a, b) ==
    /\ Len(a) = Len(b)
    /\ \E f \in [1..Len(a) -> 1..Len(a)] :
          /\ \A x, y \in 1..Len(a) : x # y => f[x] # f[y]
          /\ \A x \in 1..Len(a) : a[x] = b[f[x]]

\* the rerank answer is no id of the candidates shown to it
RerankUnusable(env) ==
    env.rerank_reply \notin
        Ids(SubSeq(ResolverList(env), 1,
                   Min(Len(ResolverList(env)), GOOGLE_PLACES_LLM_RERANK_MAX_CANDIDATES)))

\* C15: whatever the rerank step answers, the candidate list REPLACE/ADD
\* use is a permutation of the resolver's list; a failed rerank or an id
\* outside the candidates leaves the order as it was; the place written
\* into the itinerary is one of the resolver's candidates.
C15_RerankOnlyReorders ==
    AsksResolver
    => \A env \in Envs(state.intent.op) :
          (~env.raises /\ ResolverList(env) # <<>>)
          => LET found == _search_place(state.intent, submitted.itinerary[TargetDay], env)
                 r == mutate(state, heap, env)
                 at == state.intent.target_index
                 written == r.heap[r.state.modified_itinerary].itinerary[TargetDay].places[at]
             IN  /\ found.kind = "ok"
                 /\ IsPermutation(found.search_results, ResolverList(env))
                 /\ RerankUnusable(env) => found.search_results = ResolverList(env)
                 /\ found.new_place = found.search_results[1]
                 /\ r.state.search_results = found.search_results
                 /\ r.state.modified_itinerary # NoRef
                 /\ written.place_id \in Ids(ResolverList(env))

\* a REPLACE that wrote the candidate the rerank step put first
C15_Witness ==
    /\ Applied(REPLACE)
    /\ state.search_results = <<Cand2, Cand1>>
    /\ NewPlaces[state.intent.target_index].place_id = Cand2.place_id

\* the error texts the nodes record
ErrorTexts ==
    {"ERR_NO_KEYWORD", "ERR_SEARCH_FAILED", "ERR_MUTATE_NEEDS_INPUT", "ERR_DAY_NOT_FOUND",
     "ERR_PLACE_NOT_FOUND", "ERR_ADD_POSITION", "ERR_CASCADE_NEEDS_ITINERARY",
     "ERR_PLANNING_PREFERENCE", "ERR_SCHEMA", "ERR_INTENT_NEEDS_INPUT", "ERR_INTENT_PARSE"}

GenericRejection ==
    [status |-> REJECTED, modified_itinerary |-> NoItinerary,
     message |-> MSG_INTERNAL_ERROR, diff_keys |-> <<>>]

\* C16: with the error marker set, respond writes the fixed generic message
\* whatever the error text is, and the response is REJECTED with that
\* message and no itinerary: the same request state with any other error
\* text, and any answer of the response LLM, gives the identical response.
C16_ErrorDetailNeverShown ==
    /\ state.error # None => state.error \in ErrorTexts
    /\ (node = "END" /\ state.error # None)
       => /\ state.message = MSG_INTERNAL_ERROR
          /\ state.status = REJECTED
          /\ Response = GenericRejection
    /\ (node = "respond" /\ state.error # None)
       => \A e \in ErrorTexts, llm_reply \in LlmReplies :
             ChatResponse(respond([state EXCEPT !.error = e], llm_reply), heap)
                 = GenericRejection

\* a request whose place search raised, answered
C16_Witness ==
    /\ node = "END"
    /\ state.error = "ERR_SEARCH_FAILED"
    /\ Response.message = MSG_INTERNAL_ERROR

CascadeRan == "cascade" \in {visited[k] : k \in 1..Len(visited)}

\* C17: when the itinerary left by mutation and cascade fails the final
\* schema validation the request is REJECTED and the response carries no
\* itinerary; an itinerary in a response has passed the validation.
C17_InvalidItineraryNeverReturned ==
    /\ (CascadeRan /\ heap[FreshRef] # NoItinerary /\ ~ChatRoadmapValid(heap[FreshRef]))
       => /\ state.status = REJECTED
          /\ state.error # None
          /\ Response.status = REJECTED
          /\ Response.modified_itinerary = NoItinerary
    /\ (node = "END" /\ Response.modified_itinerary # NoItinerary)
       => /\ CascadeRan
          /\ ChatRoadmapValid(Response.modified_itinerary)

\* an edit applied to an itinerary the schema refuses, answered
C17_Witness ==
    /\ node = "END"
    /\ CascadeRan
    /\ state.error = "ERR_SCHEMA"
    /\ heap[FreshRef] # NoItinerary
    /\ heap[FreshRef].itinerary # submitted.itinerary
    /\ Response.status = REJECTED
    /\ Response.modified_itinerary = NoItinerary

(***************************************************************************)
(* The visit-time policy on its own: cascade run on the state a same-day   *)
(* MOVE of place 1 to position 1 leaves (the day's list as it was, the day *)
(* marked by a diff key), for days drawn from PolicyDays and proposals as  *)
(* the propose_visit_time node records them.                               *)
(***************************************************************************)
MaxPlaces == 3

PolicyTimes == {HHMM(10, 10), <<"PM", 10, 45>>, Section("DINNER"), FreeText}
PolicyLatitudes == {NoCoord, 0, 2}

\* days of 1..MaxPlaces places; the first place at the origin or without
\* coordinates
PolicyDays ==
    UNION {{[k \in 1..n |-> MkPlace(100 + k, lat[k], IF lat[k] = NoCoord THEN NoCoord ELSE 0,
                                    k, vt[k])] :
              lat \in {f \in [1..n -> PolicyLatitudes] : f[1] \in {NoCoord, 0}},
              vt \in [1..n -> PolicyTimes]} :
           n \in 1..MaxPlaces}

\* visit_time_proposals: <<day, visit_sequence, text>>
PolicyProposals ==
    {<<>>,
     <<<<1, 1, HHMM(13, 20)>>>>,
     <<<<1, 2, FreeText>>>>,
     <<<<1, 1, HHMM(8, 0)>>, <<1, 2, HHMM(23, 40)>>>>,
     <<<<1, 2, HHMM(8, 0)>>>>}

PolicyItinerary(places, preference) ==
    [planning_preference |-> preference, schema_ok |-> TRUE,
     itinerary |-> <<MkDay(1, places), MkDay(2, <<MkPlace(201, 5, 0, 1, FreeText)>>)>>]

InitPolicy ==
    \E places \in PolicyDays, proposals \in PolicyProposals, preference \in PlanningPreference :
       \E s1 \in {analyze_intent(InitialState(Q_ITEM),
                                 ChatIntentRoute(MODIFICATION, "UNKNOWN", "ITEM_LEVEL"),
                                 MkIntent(MOVE, 1, 1, 1, 1, None, FALSE))} :
          \E m \in {mutate(s1, [r \in 1..2 |-> IF r = 1 THEN PolicyItinerary(places, preference)
                                                 ELSE NoItinerary], QuietEnv)} :
             /\ state = [m.state EXCEPT !.visit_time_proposals = proposals]
             /\ heap = m.heap
             /\ submitted = PolicyItinerary(places, preference)
             /\ node = _route_after_mutate(m.state)
             /\ visited = <<"analyze_intent", "mutate">>
             /\ edits = 0

NextPolicy == Cascade \/ Respond

SpecPolicy == InitPolicy /\ [][NextPolicy]_vars

PolicyIn == submitted.itinerary[1].places
PolicyOut == heap[FreshRef].itinerary[1].places
PolicyMode == IF submitted.planning_preference = PLANNED THEN HHMM_MODE ELSE SECTION_EN

\* round up to the next multiple of 30
Ceil30(m) == 30 * ((m + 29) \div 30)

\* the proposed time for the visit_sequence of place i of day 1, if any
ProposedMinutes(i) ==
    LET Mine == {k \in 1..Len(state.visit_time_proposals) :
                    /\ state.visit_time_proposals[k][1] = 1
                    /\ state.visit_time_proposals[k][2] = PolicyIn[i].visit_sequence}
    IN  IF Mine = {} THEN NoMinutes
        ELSE parse_time_to_hhmm_minutes(
                state.visit_time_proposals[CHOOSE k \in Mine : TRUE][3])

\* minutes of the section label a visit_time holds, if it holds one
SectionStart(vt) ==
    CASE vt[1] = "MORNING" -> 540
      [] vt[1] = "LUNCH" -> 720
      [] vt[1] = "AFTERNOON" -> 840
      [] vt[1] = "DINNER" -> 1080
      [] vt[1] = "EVENING" -> 1200
      [] vt[1] = "NIGHT" -> 1320
      [] OTHER -> NoMinutes

Anchor(i) ==
    IF ProposedMinutes(i) # NoMinutes THEN ProposedMinutes(i)
    ELSE IF parse_time_to_hhmm_minutes(PolicyIn[i].visit_time) # NoMinutes
         THEN parse_time_to_hhmm_minutes(PolicyIn[i].visit_time)
    ELSE SectionStart(PolicyIn[i].visit_time)

Transit(i) ==
    IF \/ PolicyIn[i - 1].latitude = NoCoord \/ PolicyIn[i - 1].longitude = NoCoord
       \/ PolicyIn[i].latitude = NoCoord \/ PolicyIn[i].longitude = NoCoord
    THEN 0
    ELSE calc_transit_minutes(PolicyIn[i - 1].latitude, PolicyIn[i - 1].longitude,
                              PolicyIn[i].latitude, PolicyIn[i].longitude)

\* the recurrence: the time of place i in minutes
RECURSIVE Assigned(_)
Assigned(i) ==
    LET base == IF i = 1 THEN 540 ELSE Assigned(i - 1) + 90 + Transit(i)
    IN  Ceil30(IF Anchor(i) = NoMinutes THEN base ELSE Max(base, Anchor(i)))

\* the text of a time of the day in the itinerary's output mode
TimeText(minutes) ==
    IF PolicyMode = HHMM_MODE THEN HHMM(minutes \div 60, minutes % 60)
    ELSE format_minutes_to_section_en(minutes)

Overflows == {i \in 1..Len(PolicyIn) : Assigned(i) >= 1440}

OverWarnings ==
    {k \in 1..Len(state.warnings) : state.warnings[k][1] = "OVER"}

\* C18: for a day without overage cascade gives place 1 the time
\* ceil30(max(start, anchor_1)) and place i the time
\* ceil30(max(assigned_(i-1) + stay + transit, anchor_i)), the anchor term
\* dropped when there is none; the anchor is the proposed time for the
\* place's visit_sequence if there is one, else the clock time of the
\* existing visit_time, else the start of its section label.
C18_TimesFollowRecurrence ==
    (node = "respond" /\ CascadeRan /\ state.error = None /\ Overflows = {})
    => /\ Len(PolicyOut) = Len(PolicyIn)
       /\ \A i \in 1..Len(PolicyIn) :
             /\ PolicyOut[i].visit_time = TimeText(Assigned(i))
             /\ PolicyOut[i] = [PolicyIn[i] EXCEPT !.visit_time = PolicyOut[i].visit_time]
       /\ OverWarnings = {}

\* three places: the first rounded up from 10:10, the second set by stay
\* and transit, the third by its section label
C18_Witness ==
    /\ node = "respond"
    /\ CascadeRan
    /\ state.error = None
    /\ Len(PolicyIn) = 3
    /\ Anchor(1) = 610 /\ Assigned(1) = 630
    /\ Anchor(2) = NoMinutes /\ Transit(2) = 43 /\ Assigned(2) = 780
    /\ Anchor(3) = 1080 /\ Assigned(3) = 1080
    /\ PolicyOut[1].visit_time = HHMM(10, 30)
    /\ PolicyOut[2].visit_time = HHMM(13, 0)
    /\ PolicyOut[3].visit_time = HHMM(18, 0)

\* the first place whose time reaches 24:00
FirstOver(over) == CHOOSE i \in over : \A j \in over : i <= j

PlaceIndex(id) == CHOOSE i \in 1..Len(PolicyIn) : PolicyIn[i].place_id = id

\* C19: when place N is the first whose time reaches or passes 1440
\* minutes, places 1..N-1 carry their normal times, places N..end carry
\* the overage sentinel, exactly one overage warning is emitted for the
\* day, and nothing is computed for the places after N (no warning speaks
\* of them).
C19_OverageStopsTheDay ==
    (node = "respond" /\ CascadeRan /\ state.error = None)
    => \A over \in {Overflows} :
          over # {}
          => \A N \in {FirstOver(over)} :
                /\ Len(PolicyOut) = Len(PolicyIn)
                /\ \A i \in 1..Len(PolicyIn) :
                      /\ i < N => PolicyOut[i].visit_time = TimeText(Assigned(i))
                      /\ i >= N => PolicyOut[i].visit_time = OverText
                      /\ PolicyOut[i] = [PolicyIn[i] EXCEPT !.visit_time = PolicyOut[i].visit_time]
                /\ Cardinality(OverWarnings) = 1
                /\ \A k \in OverWarnings : /\ state.warnings[k] = OverWarning(1)
                                           /\ k = Len(state.warnings)
                /\ \A k \in 1..Len(state.warnings) :
                      /\ state.warnings[k][1] = "WALK"
                         => PlaceIndex(state.warnings[k][4]) <= N
                      /\ state.warnings[k][1] = "LATE"
                         => PlaceIndex(state.warnings[k][3]) < N

\* three places, the second pushed to exactly 24:00 by a proposal of 23:40
C19_Witness ==
    /\ node = "respond"
    /\ CascadeRan
    /\ state.error = None
    /\ Len(PolicyIn) = 3
    /\ Assigned(1) < 1440
    /\ Assigned(2) = 1440
    /\ PolicyOut[1].visit_time = TimeText(Assigned(1))
    /\ PolicyOut[2].visit_time = OverText
    /\ PolicyOut[3].visit_time = OverText
    /\ Cardinality(OverWarnings) = 1

\* the days the diff keys name
NamedDays == {state.diff_keys[k][2] : k \in 1..Len(state.diff_keys)}

\* the policy would rewrite some visit_time of these places
WouldChange(itinerary, d) ==
    apply_visit_time_policy(itinerary.itinerary[d].places, d, <<>>,
                            _resolve_output_mode(itinerary)).places
        # itinerary.itinerary[d].places

\* C20: cascade recomputes visit times only on the days the diff keys
\* name: every other day of the edited itinerary is, place by place and
\* field by field, after cascade what it was before, and the caller's
\* itinerary is not touched.
C20_CascadeKeepsOtherDays ==
    [][(node = "cascade" /\ state.modified_itinerary # NoRef)
       => /\ heap'[1] = heap[1]
          /\ Len(heap'[FreshRef].itinerary) = Len(heap[FreshRef].itinerary)
          /\ \A d \in 1..Len(heap[FreshRef].itinerary) :
                heap[FreshRef].itinerary[d].day_number \notin NamedDays
                => heap'[FreshRef].itinerary[d] = heap[FreshRef].itinerary[d]]_vars

\* after cascade: a kept place of the edited day has a new visit_time,
\* and another day that the policy would have rewritten is as submitted
C20_Witness ==
    /\ node = "respond"
    /\ CascadeRan
    /\ state.error = None
    /\ NamedDays = {TargetDay}
    /\ \E i \in 1..Len(OldPlaces), j \in 1..Len(NewPlaces) :
          /\ NewPlaces[j].place_id = OldPlaces[i].place_id
          /\ NewPlaces[j].visit_time # OldPlaces[i].visit_time
    /\ \E d \in 1..Len(Edited.itinerary) :
          /\ d # TargetDay
          /\ Edited.itinerary[d] = submitted.itinerary[d]
          /\ WouldChange(Edited, d)

\* proposals for a day the diff keys do not name
OtherDayProposals ==
    {<<<<2, 1, HHMM(13, 20)>>>>,
     <<<<2, 2, HHMM(23, 40)>>, <<2, 3, HHMM(8, 0)>>>>}

\* states and object stores that agree with the given ones on the place
\* list of day 1, the proposals of day 1 and the output mode, and differ
\* elsewhere: in the proposals of another day, the request text, the
\* search results, the caller's itinerary, the places of the other day
SameCascadeInputs ==
    {[state |-> [state EXCEPT !.visit_time_proposals = @ \o extra], heap |-> heap] :
        extra \in OtherDayProposals}
    \cup {[state |-> [state EXCEPT !.visit_time_proposals = extra \o @], heap |-> heap] :
        extra \in OtherDayProposals}
    \cup {[state |-> [state EXCEPT !.user_query = "Q_OTHER", !.search_results = <<Cand1>>,
                                   !.change_summary = "SUM_OTHER"],
           heap |-> [heap EXCEPT ![1] = NoItinerary]],
          [state |-> state,
           heap |-> [heap EXCEPT ![FreshRef].itinerary[2].places =
                                    <<MkPlace(201, 5, 0, 1, HHMM(23, 40)),
                                      MkPlace(202, 9, 0, 2, Section("NIGHT"))>>]]}

C22_NodesLeaveInputUnchanged ==
    [][\A r \in 1..2 : heap[r] # NoItinerary => heap'[r] = heap[r]]_vars

\* C23: when the edited day has a bounding rectangle, every candidate the
\* resolver accepted, from the first search or a fallback, lies inside it.
C23_AcceptedCandidatesInRectangle ==
    (ReachedMutate /\ state.intent # NoIntent /\ state.intent.op \in {REPLACE, ADD}
        /\ TargetDay # 0 /\ state.search_results # <<>>)
    => (DayBox # NoBbox
        => \A k \in 1..Len(state.search_results) :
              BboxContains(DayBox, state.search_results[k].latitude,
                           state.search_results[k].longitude))

\* the fallback order of the claim for a day with a rectangle: hard
\* restriction, soft bias, rating filter dropped, fully unfiltered
ClaimedChain ==
    <<SearchRequest(TRUE, TRUE, FALSE), SearchRequest(TRUE, FALSE, TRUE),
      SearchRequest(FALSE, FALSE, TRUE), SearchRequest(FALSE, FALSE, FALSE)>>

\* C24: the searches are issued one after another in the fallback order
\* hard restriction, soft bias, filter dropped, fully unfiltered; a stage
\* is tried only after all earlier ones came back empty, and none after a
\* stage with a result.
C24_FallbackOrder ==
    (AsksResolver /\ DayBox # NoBbox)
    => \A env \in Envs(state.intent.op) :
          ~env.raises
          => \A calls \in {SearchCalls(state.intent, submitted.itinerary[TargetDay], env)} :
                /\ Len(calls) <= Len(ClaimedChain)
                /\ calls = SubSeq(ClaimedChain, 1, Len(calls))
                /\ ResolverList(env) = <<>> => Len(calls) = Len(ClaimedChain)

\* C25: when a REPLACE or ADD finds no candidate and the suggestion call
\* returned without an error, the ASK_CLARIFICATION result carries a
\* suggested keyword; there is none only when the call failed.
C25_SuggestionWheneverCallSucceeds ==
    AsksResolver
    => \A env \in NoCandidateEnvs :
          \A r \in {mutate(state, heap, env)} :
             /\ r.state.status = ASK_CLARIFICATION
             /\ env.suggest_reply # "LLM_FAIL" => r.state.suggested_keyword # None
             /\ r.state.suggested_keyword = None => env.suggest_reply = "LLM_FAIL"

(***************************************************************************)
(* Two requests in flight at once (process_chat_request runs one           *)
(* run_chat_pipeline task per request), both handed the same cached        *)
(* itinerary object.  node, state are per request; heap[1] is the shared   *)
(* object, heap[1 + p] the copy request p makes; visited is the order in   *)
(* which the node steps of the two requests ran; edits holds, per request, *)
(* the answers its LLM and place-search calls give.                        *)
(***************************************************************************)
Requests == 1..2

ConcRoute == ChatIntentRoute(MODIFICATION, "UNKNOWN", "ITEM_LEVEL")
ConcReply == "MSG_GENERATED"

ConcDrafts ==
    {MkIntent(REPLACE, 1, 1, 0, NoIndex, "K", FALSE),
     MkIntent(ADD, 1, 2, 0, NoIndex, "K", FALSE),
     MkIntent(REMOVE, 1, 1, 0, NoIndex, None, FALSE),
     MkIntent(REMOVE, 2, 1, 0, NoIndex, None, FALSE),
     MkIntent(MOVE, 1, 1, 1, 2, None, FALSE)}

ConcEnvs ==
    {MkEnv(FALSE, <<Cand1, Cand2>>, <<>>, <<>>, "K2", 902),
     MkEnv(FALSE, <<>>, <<>>, <<>>, "K2", NoPlaceId)}

\* the objects request p can reach: the shared itinerary and its own copy
View(p) == [r \in 1..2 |-> IF r = 1 THEN heap[1] ELSE heap[1 + p]]

InitConcurrent ==
    /\ \E it \in {ItinA, ItinC} :
          /\ heap = <<it, NoItinerary, NoItinerary>>
          /\ submitted = it
    /\ state = [p \in Requests |-> InitialState(Q_ITEM)]
    /\ node = [p \in Requests |-> "analyze_intent"]
    /\ visited = <<>>
    /\ edits \in [Requests -> [draft : ConcDrafts, env : ConcEnvs]]

ConcAnalyzeIntent(p) ==
    /\ node[p] = "analyze_intent"
    /\ \E s1 \in {analyze_intent(state[p], ConcRoute, edits[p].draft)} :
          /\ state' = [state EXCEPT ![p] = s1]
          /\ node' = [node EXCEPT ![p] = _route_after_intent(s1)]
    /\ visited' = Append(visited, <<p, "analyze_intent">>)
    /\ UNCHANGED <<heap, submitted, edits>>

ConcMutate(p) ==
    /\ node[p] = "mutate"
    /\ \E r \in {mutate(state[p], View(p), edits[p].env)} :
          /\ state' = [state EXCEPT ![p] = r.state]
          /\ heap' = [heap EXCEPT ![1] = r.heap[1], ![1 + p] = r.heap[2]]
          /\ node' = [node EXCEPT ![p] = _route_after_mutate(r.state)]
    /\ visited' = Append(visited, <<p, "mutate">>)
    /\ UNCHANGED <<submitted, edits>>

ConcCascade(p) ==
    /\ node[p] = "cascade"
    /\ \E r \in {cascade(state[p], View(p))} :
          /\ state' = [state EXCEPT ![p] = r.state]
          /\ heap' = [heap EXCEPT ![1] = r.heap[1], ![1 + p] = r.heap[2]]
    /\ node' = [node EXCEPT ![p] = "respond"]
    /\ visited' = Append(visited, <<p, "cascade">>)
    /\ UNCHANGED <<submitted, edits>>

ConcRespond(p) ==
    /\ node[p] = "respond"
    /\ state' = [state EXCEPT ![p] = respond(state[p], ConcReply)]
    /\ node' = [node EXCEPT ![p] = "END"]
    /\ visited' = Append(visited, <<p, "respond">>)
    /\ UNCHANGED <<heap, submitted, edits>>

NextConcurrent ==
    \E p \in Requests :
        ConcAnalyzeIntent(p) \/ ConcMutate(p) \/ ConcCascade(p) \/ ConcRespond(p)

SpecConcurrent == InitConcurrent /\ [][NextConcurrent]_vars

\* C26: two requests whose node steps interleave in any order, both
\* started on the same cached itinerary, do not interfere: the shared
\* itinerary is never modified, and each request ends with the status,
\* modified itinerary, diff keys, warnings and message of the same
\* request run alone.
C26_ConcurrentRequestsDoNotInterfere ==
    /\ heap[1] = submitted
    /\ \A p \in Requests :
          node[p] = "END"
          => \A alone \in {RunGraph(submitted, Q_ITEM, ConcRoute, edits[p].draft,
                                    edits[p].env, ConcReply)} :
                /\ state[p] = alone.state
                /\ View(p) = alone.heap
                /\ ChatResponse(state[p], View(p)) = ChatResponse(alone.state, alone.heap)

\* both requests done and successful with different edits, request 2's
\* mutate having run between request 1's mutate and cascade
C26_Witness ==
    /\ \A p \in Requests : node[p] = "END" /\ state[p].status = SUCCESS
    /\ heap[2] # heap[3]
    /\ heap[2] # submitted /\ heap[3] # submitted
    /\ \E i, j, k \in 1..Len(visited) :
          /\ i < j /\ j < k
          /\ visited[i] = <<1, "mutate">>
          /\ visited[j] = <<2, "mutate">>
          /\ visited[k] = <<1, "cascade">>

\* C27: a request classified GENERAL_CHAT is answered with status
\* GENERAL_CHAT, a message, no modified itinerary and no diff key; it is
\* never run through mutate and never ends as an internal-error rejection.
C27_GeneralChatAnswered ==
    state.intent_type = GENERAL_CHAT
    => /\ node # "mutate"
       /\ "mutate" \notin {visited[k] : k \in 1..Len(visited)}
       /\ state.error = None
       /\ node = "END"
          => /\ Response.status = GENERAL_CHAT
             /\ Response.message # ""
             /\ Response.modified_itinerary = NoItinerary
             /\ Response.diff_keys = <<>>

(***************************************************************************)
(* app/services/callback_delivery.py: post_callback_with_retry.            *)
(* Delays are in milliseconds.  In this part node is the position in the   *)
(* function ("post": about to send attempt state.attempt, "sleep": in      *)
(* asyncio.sleep, "returned"), state holds the attempt number, the delay   *)
(* being slept and the returned value (<<>> until the function returns),   *)
(* submitted the callback settings, visited the POSTs sent and the sleeps  *)
(* made, in order: <<"POST", outcome kind, status code>> and               *)
(* <<"SLEEP", "", delay>>.                                                 *)
(***************************************************************************)
MaxRetries == 3

CALLBACK_MAX_RETRIES == 2
CALLBACK_BACKOFF_BASE_MS == 500
CALLBACK_BACKOFF_MAX_MS == 5000

NoStatus == 0

\* what one requests.post plus raise_for_status can end with: a response
\* with a status code, or an exception of requests
Response2xx == <<"RESPONSE", 200>>
PostOutcomes ==
    {Response2xx, <<"RESPONSE", 404>>, <<"RESPONSE", 429>>, <<"RESPONSE", 500>>,
     <<"Timeout", NoStatus>>, <<"ConnectionError", NoStatus>>, <<"InvalidURL", NoStatus>>}

\* only 5xx answers raise
raise_for_status_ServerOnly(status_code) == 500 <= status_code /\ status_code < 600

\* response.raise_for_status(): HTTPError for a 4xx or 5xx answer
raise_for_status(status_code) == 400 <= status_code /\ status_code < 600

\* the try block reaches its return True
Acknowledged(outcome) == outcome[1] = "RESPONSE" /\ ~raise_for_status(outcome[2])

\* the exception the try block ends with: <<class, status code>>
RaisedException(outcome) ==
    IF outcome[1] = "RESPONSE" THEN <<"HTTPError", outcome[2]>> ELSE outcome

\* every HTTPError taken as retryable
_is_retryable_request_error_AnyHttp(exc) ==
    exc[1] \in {"Timeout", "ConnectionError", "HTTPError"}

_is_retryable_request_error(exc) ==
    IF exc[1] \in {"Timeout", "ConnectionError"} THEN TRUE
    ELSE IF exc[1] = "HTTPError"
         THEN exc[2] = NoStatus \/ exc[2] = 429 \/ exc[2] >= 500
    ELSE FALSE

\* the doubling without the cap
BackoffDelay_Uncapped(attempt, base_delay, max_delay) == base_delay * 2 ^ (attempt - 1)

\* delay = min(max_delay, base_delay * (2 ** (attempt - 1)))
BackoffDelay(attempt, base_delay, max_delay) ==
    Min(max_delay, base_delay * 2 ^ (attempt - 1))

max_attempts == 1 + Max(0, submitted.CALLBACK_MAX_RETRIES)
base_delay == Max(0, submitted.CALLBACK_BACKOFF_BASE_MS)
max_delay == Max(base_delay, submitted.CALLBACK_BACKOFF_MAX_MS)

CallbackSettings ==
    [CALLBACK_MAX_RETRIES : (0 - 1)..MaxRetries,
     CALLBACK_BACKOFF_BASE_MS : {0, CALLBACK_BACKOFF_BASE_MS, 3000},
     CALLBACK_BACKOFF_MAX_MS : {CALLBACK_BACKOFF_MAX_MS, 100}]

InitCallback ==
    /\ submitted \in CallbackSettings
    /\ node = "post"
    /\ state = [attempt |-> 1, delay |-> 0, result |-> <<>>]
    /\ visited = <<>>
    /\ heap = <<>>
    /\ edits = 0

\* one pass of the loop body up to its return or its await of the sleep
CallbackPost ==
    /\ node = "post"
    /\ \E outcome \in PostOutcomes :
          /\ visited' = Append(visited, <<"POST", outcome[1], outcome[2]>>)
          /\ IF Acknowledged(outcome)
             THEN /\ node' = "returned"
                  /\ state' = [state EXCEPT !.result = <<TRUE>>]
             ELSE IF state.attempt >= max_attempts
                     \/ ~_is_retryable_request_error(RaisedException(outcome))
             THEN /\ node' = "returned"
                  /\ state' = [state EXCEPT !.result = <<FALSE>>]
             ELSE /\ node' = "sleep"
                  /\ state' = [state EXCEPT
                                 !.delay = BackoffDelay(state.attempt, base_delay, max_delay)]
    /\ UNCHANGED <<heap, submitted, edits>>

\* asyncio.sleep(delay) is over and the loop goes to the next attempt
CallbackSleep ==
    /\ node = "sleep"
    /\ visited' = Append(visited, <<"SLEEP", "", state.delay>>)
    /\ state' = [state EXCEPT !.attempt = @ + 1, !.delay = 0]
    /\ node' = "post"
    /\ UNCHANGED <<heap, submitted, edits>>

NextCallback == CallbackPost \/ CallbackSleep

SpecCallback == InitCallback /\ [][NextCallback]_vars

\* the event loop runs the awaited thread and the sleep to their end
SpecCallbackFair == SpecCallback /\ WF_vars(CallbackPost) /\ WF_vars(CallbackSleep)

Posts == {k \in 1..Len(visited) : visited[k][1] = "POST"}
Sleeps == SelectSeq(visited, LAMBDA e : e[1] = "SLEEP")

TransientOutcomes ==
    {<<"Timeout", NoStatus>>, <<"ConnectionError", NoStatus>>,
     <<"RESPONSE", 429>>, <<"RESPONSE", 500>>}
PermanentOutcomes == {<<"RESPONSE", 404>>, <<"InvalidURL", NoStatus>>}

OutcomeAt(k) == <<visited[k][2], visited[k][3]>>

\* 2 to the power n, by repeated doubling
RECURSIVE Doubled(_, _)
Doubled(x, n) == IF n = 0 THEN x ELSE Doubled(2 * x, n - 1)

C28_Shape ==
    /\ Cardinality(Posts) <= 1 + Max(0, submitted.CALLBACK_MAX_RETRIES)
    /\ \A k \in 1..Len(Sleeps) :
          LET base == submitted.CALLBACK_BACKOFF_BASE_MS
              cap == Max(base, submitted.CALLBACK_BACKOFF_MAX_MS)
          IN  Sleeps[k][3] = Min(cap, Doubled(base, k - 1))
    /\ node = "returned"
       => /\ Len(state.result) = 1
          /\ state.result[1] \in BOOLEAN
          /\ visited[Len(visited)][1] = "POST"
          /\ Len(Sleeps) = Cardinality(Posts) - 1
    /\ (/\ submitted.CALLBACK_MAX_RETRIES = CALLBACK_MAX_RETRIES
        /\ submitted.CALLBACK_BACKOFF_BASE_MS = CALLBACK_BACKOFF_BASE_MS
        /\ submitted.CALLBACK_BACKOFF_MAX_MS = CALLBACK_BACKOFF_MAX_MS
        /\ Cardinality(Posts) = 3)
       => Sleeps = <<<<"SLEEP", "", 500>>, <<"SLEEP", "", 1000>>>>

\* C28: callback delivery makes at most 1 + CALLBACK_MAX_RETRIES POSTs and
\* always returns a boolean; before the k-th retry it waits
\* min(max_delay, base_delay * 2^(k-1)), 0.5 s then 1.0 s with base 0.5 and
\* two retries; it never waits after the final attempt.
C28_BoundedAttemptsWithBackoff == []C28_Shape /\ <>(node = "returned")

\* every attempt used up, with capped waits: 3.0, 5.0, 5.0 seconds
C28_Witness ==
    /\ node = "returned"
    /\ submitted.CALLBACK_MAX_RETRIES = 3
    /\ Cardinality(Posts) = 4
    /\ state.result = <<FALSE>>
    /\ Sleeps = <<<<"SLEEP", "", 3000>>, <<"SLEEP", "", 5000>>, <<"SLEEP", "", 5000>>>>

\* C29: a POST that fails with a non-retryable error (a 4xx answer other
\* than 429, a malformed URL) is the last thing the delivery does: no wait
\* and no POST follows, and the result is False, whatever the retry count;
\* failing so at once, it is attempted exactly once.
C29_PermanentFailureEndsDelivery ==
    \A k \in Posts :
       OutcomeAt(k) \in PermanentOutcomes
       => /\ k = Len(visited)
          /\ node = "returned"
          /\ state.result = <<FALSE>>
          /\ k = 1 => Cardinality(Posts) = 1 /\ Sleeps = <<>>

\* three retries allowed, the first POST answered 404
C29_Witness ==
    /\ node = "returned"
    /\ submitted.CALLBACK_MAX_RETRIES = 3
    /\ visited = <<<<"POST", "RESPONSE", 404>>>>
    /\ state.result = <<FALSE>>

\* C30: after an acknowledged POST nothing more is sent and the result is
\* True, and True is returned only then; every retry follows a wait that
\* follows a POST failed with a transient error.
C30_NoRetryAfterAcknowledgement ==
    /\ \A k \in Posts :
          OutcomeAt(k) = Response2xx
          => /\ k = Len(visited)
             /\ node = "returned"
             /\ state.result = <<TRUE>>
    /\ (node = "returned" /\ state.result = <<TRUE>>)
       => OutcomeAt(Len(visited)) = Response2xx
    /\ \A k \in Posts :
          k > 1 => /\ visited[k - 1][1] = "SLEEP"
                   /\ k - 2 \in Posts
                   /\ OutcomeAt(k - 2) \in TransientOutcomes

\* two connection errors, then the acknowledged third POST
C30_Witness ==
    /\ node = "returned"
    /\ state.result = <<TRUE>>
    /\ Cardinality(Posts) = 3
    /\ OutcomeAt(1) = <<"ConnectionError", NoStatus>>
    /\ OutcomeAt(3) = <<"ConnectionError", NoStatus>>
    /\ OutcomeAt(5) = Response2xx

(***************************************************************************)
(* The timeout policy (app/core/timeout_policy.py) and the recommendation  *)
(* worker (app/services/recommend_service.py process_recommend_request).   *)
(***************************************************************************)
MaxSeconds == 2      \* configured timeouts range over None and 0..MaxSeconds

_MIN_TIMEOUT_SECONDS == 1

\* None as a timeout value or as an upper bound
NoSeconds == -9999

\* the cap of the upper bound left out
_normalize_timeout_Uncapped(value, default, upper_bound) ==
    Max(_MIN_TIMEOUT_SECONDS, IF value # NoSeconds THEN value ELSE default)

_normalize_timeout(value, default, upper_bound) ==
    LET seconds == IF value # NoSeconds THEN value ELSE default
        floored == Max(_MIN_TIMEOUT_SECONDS, seconds)
    IN  IF upper_bound # NoSeconds THEN Min(floored, upper_bound) ELSE floored

build_timeout_policy(settings) ==
    LET request_timeout ==
            _normalize_timeout(settings.REQUEST_TIMEOUT_SECONDS, 60, NoSeconds)
        llm_timeout ==
            _normalize_timeout(settings.LLM_TIMEOUT_SECONDS, 60, request_timeout)
        recommend_timeout ==
            _normalize_timeout(settings.RECOMMEND_TIMEOUT_SECONDS, 45, request_timeout)
        external_timeout ==
            _normalize_timeout(settings.EXTERNAL_API_TIMEOUT_SECONDS, 15, request_timeout)
        callback_timeout ==
            _normalize_timeout(settings.CALLBACK_TIMEOUT_SECONDS, 10, external_timeout)
        google_places_timeout ==
            _normalize_timeout(settings.GOOGLE_PLACES_TIMEOUT_SECONDS, 10, external_timeout)
    IN  [request_timeout_seconds |-> request_timeout,
         llm_timeout_seconds |-> llm_timeout,
         recommend_timeout_seconds |-> recommend_timeout,
         external_api_timeout_seconds |-> external_timeout,
         callback_timeout_seconds |-> callback_timeout,
         google_places_timeout_seconds |-> google_places_timeout]

get_timeout_policy(settings) == build_timeout_policy(settings)

TimeoutValues == {NoSeconds} \cup 0..MaxSeconds

\* the fields of Settings the workers read
WorkerSettings ==
    [REQUEST_TIMEOUT_SECONDS : TimeoutValues,
     LLM_TIMEOUT_SECONDS : TimeoutValues,
     RECOMMEND_TIMEOUT_SECONDS : TimeoutValues,
     EXTERNAL_API_TIMEOUT_SECONDS : TimeoutValues,
     CALLBACK_TIMEOUT_SECONDS : TimeoutValues,
     GOOGLE_PLACES_TIMEOUT_SECONDS : TimeoutValues,
     EXPOSE_INTERNAL_ERRORS : BOOLEAN]

FAILED == "FAILED"

\* str(exc) of the exceptions the recommendation pipeline raises
ExceptionTexts == {"INSUFFICIENT_DESTINATIONS", "sensitive: internal detail"}

MSG_RECOMMEND_TIMEOUT == "Analysis took too long to complete."
MSG_RECOMMEND_INTERNAL == "MSG_RECOMMEND_INTERNAL"

\* what awaiting the pipeline under wait_for ends with
RecommendOutcomes ==
    {<<"RETURNED", "RecommendResultData">>, <<"TIMEOUT", "">>}
        \cup {<<"RAISED", text>> : text \in ExceptionTexts}

RecommendCallbackSuccess(data) == [status |-> SUCCESS, data |-> data]

RecommendCallbackFailure(code, message) ==
    [status |-> FAILED, error |-> [code |-> code, message |-> message]]

\* the payload process_recommend_request builds for an outcome
RecommendPayload(outcome) ==
    IF outcome[1] = "RETURNED" THEN RecommendCallbackSuccess(outcome[2])
    ELSE IF outcome[1] = "TIMEOUT"
         THEN RecommendCallbackFailure("LLM_TIMEOUT", MSG_RECOMMEND_TIMEOUT)
    ELSE RecommendCallbackFailure("PIPELINE_ERROR", outcome[2])

InitRecommend ==
    /\ submitted \in WorkerSettings
    /\ node = "pipeline"
    /\ state = [outcome |-> <<>>, callback_payload |-> <<>>]
    /\ visited = <<>>
    /\ heap = <<>>
    /\ edits = 0

\* the try block: the awaited pipeline ends and the payload is built
RecommendPipeline ==
    /\ node = "pipeline"
    /\ \E outcome \in RecommendOutcomes :
          state' = [outcome |-> outcome,
                    callback_payload |-> RecommendPayload(outcome)]
    /\ node' = "callback"
    /\ UNCHANGED <<heap, submitted, visited, edits>>

\* await _post_callback(...): delivery of the payload is started
RecommendPostCallback ==
    /\ node = "callback"
    /\ visited' = Append(visited,
                     <<"CALLBACK", state.callback_payload,
                       get_timeout_policy(submitted).callback_timeout_seconds>>)
    /\ node' = "done"
    /\ UNCHANGED <<state, heap, submitted, edits>>

NextRecommend == RecommendPipeline \/ RecommendPostCallback

SpecRecommend == InitRecommend /\ [][NextRecommend]_vars

\* the payloads handed to callback delivery
Delivered == {visited[k][2] : k \in {j \in 1..Len(visited) : visited[j][1] = "CALLBACK"}}

\* C31: when the recommendation pipeline raises, the callback carries status
\* FAILED and code PIPELINE_ERROR; its message is the fixed generic text
\* whenever EXPOSE_INTERNAL_ERRORS is false, and the exception text appears
\* in it only when EXPOSE_INTERNAL_ERRORS is true.
C31_InternalErrorHiddenByDefault ==
    (node = "done" /\ state.outcome[1] = "RAISED")
    => \A payload \in Delivered :
          /\ payload.status = FAILED
          /\ payload.error.code = "PIPELINE_ERROR"
          /\ ~submitted.EXPOSE_INTERNAL_ERRORS
             => payload.error.message = MSG_RECOMMEND_INTERNAL
          /\ payload.error.message \in ExceptionTexts
             => submitted.EXPOSE_INTERNAL_ERRORS

\* C32: for every configuration every timeout of the built policy is at
\* least 1 second, the LLM, recommend and external-API timeouts do not exceed
\* the request timeout, and the callback and Google Places timeouts do not
\* exceed the external-API timeout.
C32_TimeoutPolicyOrdered ==
    \A policy \in {build_timeout_policy(submitted)} :
       /\ \A f \in DOMAIN policy : policy[f] >= 1
       /\ policy.llm_timeout_seconds <= policy.request_timeout_seconds
       /\ policy.recommend_timeout_seconds <= policy.request_timeout_seconds
       /\ policy.external_api_timeout_seconds <= policy.request_timeout_seconds
       /\ policy.callback_timeout_seconds <= policy.external_api_timeout_seconds
       /\ policy.google_places_timeout_seconds <= policy.external_api_timeout_seconds

\* the configuration of the repository's test: every configured timeout
\* above the request timeout, so every cap applies, and delivery has started
C32_Witness ==
    /\ node = "done"
    /\ submitted.REQUEST_TIMEOUT_SECONDS = 1
    /\ submitted.LLM_TIMEOUT_SECONDS = 2
    /\ submitted.RECOMMEND_TIMEOUT_SECONDS = 2
    /\ submitted.EXTERNAL_API_TIMEOUT_SECONDS = 2
    /\ submitted.CALLBACK_TIMEOUT_SECONDS = 2
    /\ submitted.GOOGLE_PLACES_TIMEOUT_SECONDS = NoSeconds
    /\ build_timeout_policy(submitted)
         = [request_timeout_seconds |-> 1, llm_timeout_seconds |-> 1,
            recommend_timeout_seconds |-> 1, external_api_timeout_seconds |-> 1,
            callback_timeout_seconds |-> 1, google_places_timeout_seconds |-> 1]
(***************************************************************************)
(* Failures of the LLM-backed steps of the chat graph.                     *)
(***************************************************************************)
\* the route the keyword heuristics give each representative request
KeywordRoute(user_query) ==
    CASE user_query = Q_DAY_CHANGE -> ChatIntentRoute(MODIFICATION, "MOVE", "DAY_LEVEL")
      [] user_query = Q_DAY_DELETE -> ChatIntentRoute(MODIFICATION, "DELETE", "DAY_LEVEL")
      [] user_query = Q_AMBIGUOUS -> ChatIntentRoute(MODIFICATION, "DELETE", "UNKNOWN")
      [] user_query = Q_ITEM -> ChatIntentRoute(MODIFICATION, "UNKNOWN", "UNKNOWN")
      [] OTHER -> ChatIntentRoute(GENERAL_CHAT, "UNKNOWN", "UNKNOWN")

HasSummary(st) == st.change_summary # None /\ st.change_summary # ""

\* C33: a failed LLM call fails only its step.  A failed classification
\* continues with the keyword heuristic's route, a failed rerank with the
\* resolver's order, a failed keyword suggestion with no suggestion, a failed
\* response synthesis with the change summary (the fixed text when there is
\* none) and the status it would have had; none of them sets the error
\* marker.  A failed intent structuring, which has no fallback, sets the
\* error marker and the graph still ends in respond.
C33_LlmFailureFailsOnlyItsStep ==
    /\ (node = "analyze_intent" /\ state.user_query # Q_EMPTY)
       => \A d \in Drafts \cup {NoIntent} :
             \A s \in {analyze_intent(state, LlmFailed, d)} :
                /\ s = analyze_intent(state, KeywordRoute(state.user_query), d)
                /\ s.error # None => (d = NoIntent /\ _route_after_intent(s) = "respond")
                /\ d = NoIntent => s.error \in {None, "ERR_INTENT_PARSE"}
    /\ AsksResolver
       => \A env \in Envs(state.intent.op) :
             \A r \in {IF env.raises THEN [state |-> state, heap |-> heap]
                       ELSE mutate(state, heap, env)} :
                /\ (~env.raises /\ ResolverList(env) # <<>> /\ env.rerank_reply = NoPlaceId)
                   => /\ r.state.error = None
                      /\ r.state.search_results = ResolverList(env)
                      /\ r.state.modified_itinerary # NoRef
                /\ (~env.raises /\ ResolverList(env) = <<>> /\ env.suggest_reply = "LLM_FAIL")
                   => /\ r.state.error = None
                      /\ r.state.status = ASK_CLARIFICATION
                      /\ r.state.suggested_keyword = None
    /\ (node = "respond" /\ state.error = None)
       => \A r \in {respond(state, "LLM_FAIL")} :
             /\ r.error = None
             /\ r.status = respond(state, "MSG_GENERATED").status
             /\ r.message = IF HasSummary(state) THEN state.change_summary ELSE MSG_FALLBACK
             /\ r = [state EXCEPT !.status = r.status, !.message = r.message]

\* an edit went through all four nodes and the response LLM failed: the
\* request ends SUCCESS with the fixed fallback text
C33_Witness ==
    /\ node = "END"
    /\ visited = <<"analyze_intent", "mutate", "cascade", "respond">>
    /\ state.error = None
    /\ state.status = SUCCESS
    /\ state.message = MSG_FALLBACK
(***************************************************************************)
(* Transit minutes as the cascaded day shows them.                         *)
(***************************************************************************)
HasCoords(place) == place.latitude # NoCoord /\ place.longitude # NoCoord

\* round(distance_km * transit_factor + transit_base_minutes) in whole
\* minutes, 0 without coordinates; no distance of the model's grid gives a
\* fraction of exactly one half
RoundedTransit(prev, cur) ==
    IF ~HasCoords(prev) \/ ~HasCoords(cur) THEN 0
    ELSE LET thousandths ==
                 MetersPerUnit * Abs(cur.latitude - prev.latitude) * _DEFAULT_TRANSIT_FACTOR
                     + _DEFAULT_TRANSIT_BASE_MINUTES * 1000
         IN  (thousandths + 500) \div 1000

\* the minutes the walk warnings of a day give for the leg from a to b
WarnedMinutes(d, a, b) ==
    {state.warnings[k][5] : k \in {j \in 1..Len(state.warnings) :
        /\ state.warnings[j][1] = "WALK" /\ state.warnings[j][2] = d
        /\ state.warnings[j][3] = a /\ state.warnings[j][4] = b}}

CascadedDays == {d \in NamedDays : d <= Len(heap[FreshRef].itinerary)}

\* C34: the transit time of two consecutive places of a cascaded day is
\* round(distance_km * transit_factor + transit_base_minutes) when both have
\* coordinates, the base minutes when the coordinates are the same, 0 when a
\* coordinate is missing: a leg is warned about exactly when this number
\* passes the walking threshold, with this number, and in clock mode the
\* later place is not scheduled before the earlier one's time plus stay plus
\* this number.
C34_TransitIsRounded ==
    (node = "respond" /\ CascadeRan /\ state.error = None)
    => \A d \in CascadedDays :
          \A places \in {heap[FreshRef].itinerary[d].places} :
             \A i \in 2..Len(places) :
                places[i - 1].visit_time # OverText
                => \A t \in {RoundedTransit(places[i - 1], places[i])} :
                      /\ (HasCoords(places[i]) /\ HasCoords(places[i - 1])
                          /\ places[i].latitude = places[i - 1].latitude
                          /\ places[i].longitude = places[i - 1].longitude)
                         => t = _DEFAULT_TRANSIT_BASE_MINUTES
                      /\ WarnedMinutes(d, places[i - 1].place_id, places[i].place_id)
                           = IF t > _DEFAULT_WALK_WARNING_MINUTES THEN {t} ELSE {}
                      /\ (places[i].visit_time[1] = "HHMM"
                          /\ places[i - 1].visit_time[1] = "HHMM")
                         => parse_time_to_hhmm_minutes(places[i].visit_time)
                              >= parse_time_to_hhmm_minutes(places[i - 1].visit_time)
                                   + _DEFAULT_STAY_MINUTES + t
(***************************************************************************)
(* The mutate node of the modify graph on its own: one edit per run.       *)
(***************************************************************************)
\* the intents the modify graph's analysis hands to mutate: a MOVE names its
\* destination, a missing destination field is 0
ModifyDrafts ==
    {MkIntent(op, d, i, 0, NoIndex, kw, FALSE) :
        op \in {REPLACE, ADD}, d \in 1..MaxDay, i \in 1..MaxIndex, kw \in {"K", None}}
    \cup {MkIntent(REMOVE, d, i, 0, NoIndex, None, FALSE) : d \in 1..MaxDay, i \in 1..MaxIndex}
    \cup {MkIntent(MOVE, d, i, dd, di, None, FALSE) :
            d \in 1..MaxDay, i \in 1..MaxIndex, dd \in 0..MaxDay, di \in 0..MaxIndex}

ModifyEnvs(op) ==
    IF op \in {REPLACE, ADD}
    THEN {MkEnv(raises, r1, <<>>, <<>>, sg, NoPlaceId) :
            raises \in BOOLEAN, r1 \in ResultLists, sg \in {"LLM_FAIL", "", "K", "K2"}}
    ELSE {QuietEnv}

InitModify ==
    /\ node = "mutate"
    /\ \E draft \in ModifyDrafts :
          state = [InitialState(Q_ITEM) EXCEPT !.intent_type = MODIFICATION, !.intent = draft]
    /\ \E it \in {ItinA, ItinC, ItinD} :
          /\ heap = [r \in 1..2 |-> IF r = 1 THEN it ELSE NoItinerary]
          /\ submitted = it
    /\ visited = <<>>
    /\ edits = 0

ModifyMutate ==
    /\ node = "mutate"
    /\ \E env \in ModifyEnvs(state.intent.op) :
          \E r \in {modify_mutate(state, heap, env)} :
             /\ state' = r.state
             /\ heap' = r.heap
    /\ node' = "END"
    /\ visited' = Append(visited, "mutate")
    /\ UNCHANGED <<submitted, edits>>

NextModify == ModifyMutate

SpecModify == InitModify /\ [][NextModify]_vars

\* a MOVE to another day went through
CrossDayMoved ==
    /\ node = "END"
    /\ state.intent.op = MOVE
    /\ state.intent.destination_day \notin {0, state.intent.target_day}
    /\ state.error = None
    /\ state.modified_itinerary # NoRef

\* C35: in the variant that moves places across days, a successful MOVE from
\* day s to day t removes the place from day s, inserts it into day t at the
\* destination position clamped to the day's length, numbers both days 1..n
\* and emits exactly the two diff keys day{s}_place1 and
\* day{t}_place{final position}, in this order.
C35_CrossDayMoveNamesBothDays ==
    CrossDayMoved
    => \A s \in {_find_day(submitted, state.intent.target_day)} :
       \A t \in {_find_day(submitted, state.intent.destination_day)} :
       \A i \in {state.intent.target_index} :
       \A at \in {Min(Max(1, state.intent.destination_index),
                      Len(submitted.itinerary[t].places) + 1)} :
          LET old == submitted.itinerary
              new == heap[state.modified_itinerary].itinerary
          IN  /\ Len(new[s].places) = Len(old[s].places) - 1
              /\ Len(new[t].places) = Len(old[t].places) + 1
              /\ Dense(new[s].places) /\ Dense(new[t].places)
              /\ \A k \in 1..Len(new[s].places) :
                    SameIdentity(new[s].places[k], Without(old[s].places, i)[k])
              /\ SameIdentity(new[t].places[at], old[s].places[i])
              /\ \A k \in 1..Len(old[t].places) :
                    SameIdentity(new[t].places[IF k < at THEN k ELSE k + 1], old[t].places[k])
              /\ state.diff_keys
                   = <<build_diff_key(state.intent.target_day, 1),
                       build_diff_key(state.intent.destination_day, at)>>
(***************************************************************************)
(* app/services/chat_service.py: the callback payload of a chat response.  *)
(***************************************************************************)
_build_callback_payload(result) ==
    [status |-> result.status,
     message |-> result.message,
     diff_keys |-> result.diff_keys,
     modified_itinerary |-> IF result.status = SUCCESS THEN result.modified_itinerary
                            ELSE NoItinerary]

\* C36: in every chat response, and in the callback payload built from it,
\* modified_itinerary is present only when the status is SUCCESS and
\* diff_keys is non-empty only when the status is SUCCESS; every SUCCESS
\* response carries a modified itinerary and exactly one diff key.
C36_ItineraryAndDiffKeysOnlyOnSuccess ==
    node = "END"
    => \A response \in {Response, _build_callback_payload(Response)} :
          /\ response.modified_itinerary # NoItinerary => response.status = SUCCESS
          /\ response.diff_keys # <<>> => response.status = SUCCESS
          /\ response.status = SUCCESS
             => /\ response.modified_itinerary # NoItinerary
                /\ Len(response.diff_keys) = 1
                /\ response.modified_itinerary = heap[FreshRef]

\* a refused edit (a cross-day MOVE) answered without itinerary and keys
\* after mutate had run
C36_Witness ==
    /\ node = "END"
    /\ ReachedMutate
    /\ state.intent.op = MOVE
    /\ Response.status = REJECTED
    /\ Response.modified_itinerary = NoItinerary
    /\ Response.diff_keys = <<>>
    /\ _build_callback_payload(Response).modified_itinerary = NoItinerary
\* C37: after a successful mutation every diff key day{N}_place{M} names a
\* slot of the modified itinerary: day N exists and 1 <= M <= the number of
\* places day N holds after the edit, also after a REMOVE of the last place
\* of a day.
C37_DiffKeysNameExistingSlots ==
    (ReachedMutate /\ state.error = None /\ state.modified_itinerary # NoRef)
    => \A k \in 1..Len(state.diff_keys) :
          \A N \in {state.diff_keys[k][2]}, M \in {state.diff_keys[k][4]} :
             \A d \in {_find_day(heap[state.modified_itinerary], N)} :
                /\ d # 0
                /\ 1 <= M
                /\ M <= Len(heap[state.modified_itinerary].itinerary[d].places)
\* the cascade node run once more on what it has just produced, with the
\* same diff keys and no proposed times
CascadeAgain == cascade([state EXCEPT !.visit_time_proposals = <<>>, !.warnings = <<>>], heap)

NoOverage(places) == \A i \in 1..Len(places) : places[i].visit_time # OverText

\* C38: cascade is idempotent on its own output: run again with the same
\* policy and no proposed times on a day it has just cascaded without
\* overage, it leaves every visit_time as it is, in HH:MM mode and in
\* section-label mode alike.
C38_CascadeIsIdempotent ==
    (node = "respond" /\ CascadeRan /\ state.error = None /\ NoOverage(PolicyOut))
    => \A again \in {CascadeAgain} :
          /\ again.state.error = None
          /\ \A i \in 1..Len(PolicyOut) :
                again.heap[FreshRef].itinerary[1].places[i].visit_time
                    = PolicyOut[i].visit_time

\* the same for the clock mode alone
C38_ClockModeOnly ==
    (node = "respond" /\ CascadeRan /\ state.error = None /\ NoOverage(PolicyOut)
        /\ PolicyMode = HHMM_MODE)
    => \A again \in {CascadeAgain} :
          /\ again.state.error = None
          /\ again.heap[FreshRef] = heap[FreshRef]
\* the places of the cascaded day before the first overage sentinel
Scheduled == {i \in 1..Len(PolicyOut) : \A j \in 1..i : PolicyOut[j].visit_time # OverText}

\* the clock time a cascaded place shows, in minutes
ShownMinutes(i) == parse_time_to_hhmm_minutes(PolicyOut[i].visit_time)

\* the position of a section label in the order of the day
SectionRank(vt) ==
    CASE vt[1] = "MORNING" -> 1 [] vt[1] = "LUNCH" -> 2 [] vt[1] = "AFTERNOON" -> 3
      [] vt[1] = "DINNER" -> 4 [] vt[1] = "EVENING" -> 5 [] vt[1] = "NIGHT" -> 6
      [] OTHER -> 0

MSG_CHAT_TIMEOUT == "MSG_CHAT_TIMEOUT"        \* "LLM 응답 시간이 초과되었습니다."
MSG_CHAT_INTERNAL == "MSG_CHAT_INTERNAL"      \* "대화 처리 중 내부 오류가 발생했습니다."

ChatCallbackFailure(code, message) ==
    [status |-> FAILED, error |-> [code |-> code, message |-> message]]

\* no ChatResponse: the pipeline did not return
NoResponse == [status |-> None, modified_itinerary |-> NoItinerary, message |-> "",
               diff_keys |-> <<>>]

\* a timeout reported as any other exception
ChatJobPayload_TimeoutAsError(outcome) ==
    IF outcome[1] = "RETURNED" THEN _build_callback_payload(outcome[2])
    ELSE ChatCallbackFailure("PIPELINE_ERROR", MSG_CHAT_INTERNAL)

\* the payload the try block of process_chat_request ends with
ChatJobPayload(outcome) ==
    IF outcome[1] = "RETURNED" THEN _build_callback_payload(outcome[2])
    ELSE IF outcome[1] = "TIMEOUT" THEN ChatCallbackFailure("LLM_TIMEOUT", MSG_CHAT_TIMEOUT)
    ELSE ChatCallbackFailure("PIPELINE_ERROR", MSG_CHAT_INTERNAL)

\* the settings a chat job reads: the LLM and the callback timeout vary
ChatJobSettings ==
    {[REQUEST_TIMEOUT_SECONDS |-> NoSeconds, LLM_TIMEOUT_SECONDS |-> llm,
      RECOMMEND_TIMEOUT_SECONDS |-> NoSeconds, EXTERNAL_API_TIMEOUT_SECONDS |-> NoSeconds,
      CALLBACK_TIMEOUT_SECONDS |-> cb, GOOGLE_PLACES_TIMEOUT_SECONDS |-> NoSeconds,
      EXPOSE_INTERNAL_ERRORS |-> expose] :
        llm \in TimeoutValues, cb \in TimeoutValues, expose \in BOOLEAN}

ChatJobRequests == [itinerary : {ItinA, ItinD}, draft : ConcDrafts]

\* what awaiting run_chat_pipeline under wait_for ends with: the response
\* built from the final graph state, the timeout, or an exception
ChatJobOutcomes(request) ==
    {<<"RETURNED", ChatResponse(r.state, r.heap)>> :
        r \in {RunGraph(request.itinerary, Q_ITEM, ConcRoute, request.draft, env, llm_reply) :
                  env \in ConcEnvs, llm_reply \in LlmReplies}}
    \cup {<<"TIMEOUT", NoResponse>>, <<"RAISED", NoResponse>>}

InitChatJob ==
    /\ submitted \in [settings : ChatJobSettings, request : ChatJobRequests]
    /\ node = "pipeline"
    /\ state = [outcome |-> <<>>, payload |-> <<>>]
    /\ visited = <<>>
    /\ heap = <<>>
    /\ edits = 0

\* the try block: the awaited pipeline ends and the payload is built
ChatJobPipeline ==
    /\ node = "pipeline"
    /\ \E outcome \in ChatJobOutcomes(submitted.request) :
          state' = [outcome |-> outcome, payload |-> ChatJobPayload(outcome)]
    /\ node' = "callback"
    /\ UNCHANGED <<heap, submitted, visited, edits>>

\* await _post_callback(...): delivery of the payload is started
ChatJobPostCallback ==
    /\ node = "callback"
    /\ visited' = Append(visited,
                     <<"CALLBACK", state.payload,
                       get_timeout_policy(submitted.settings).callback_timeout_seconds>>)
    /\ node' = "done"
    /\ UNCHANGED <<state, heap, submitted, edits>>

NextChatJob == ChatJobPipeline \/ ChatJobPostCallback

SpecChatJob == InitChatJob /\ [][NextChatJob]_vars

\* wait_for bounds the awaited pipeline: the try block ends, with whatever
\* outcome
ChatJobPipelineEnds ==
    /\ node = "pipeline"
    /\ node' = "callback"

\* the event loop runs the awaited pipeline and the awaited delivery to
\* their end
SpecChatJobFair ==
    SpecChatJob /\ WF_node(ChatJobPipelineEnds) /\ WF_vars(ChatJobPostCallback)

C40_Shape ==
    /\ Len(visited) <= 1
    /\ node = "done"
       => /\ Len(visited) = 1
          /\ visited[1][1] = "CALLBACK"
          /\ \A payload \in {visited[1][2]}, result \in {state.outcome[2]} :
                /\ state.outcome[1] = "RETURNED"
                   => /\ payload.status = result.status
                      /\ payload.status \in {SUCCESS, REJECTED, ASK_CLARIFICATION}
                      /\ payload.message = result.message
                      /\ payload.diff_keys = result.diff_keys
                      /\ payload.status = SUCCESS
                         => payload.modified_itinerary = result.modified_itinerary
                /\ state.outcome[1] = "TIMEOUT"
                   => /\ payload.status = FAILED
                      /\ payload.error.code = "LLM_TIMEOUT"
                /\ state.outcome[1] = "RAISED"
                   => /\ payload.status = FAILED
                      /\ payload.error.code = "PIPELINE_ERROR"
                      /\ payload.error.message = MSG_CHAT_INTERNAL

\* C40: for every accepted chat job, whether the pipeline returns, exceeds
\* the LLM timeout or raises, callback delivery is started exactly once with
\* one payload: the pipeline's result, a FAILED payload with code
\* LLM_TIMEOUT, or a FAILED payload with code PIPELINE_ERROR and the fixed
\* generic message.
C40_OneCallbackPerJob == []C40_Shape /\ <>(node = "done")

\* a job whose pipeline exceeded the LLM timeout, delivery started
C40_Witness ==
    /\ node = "done"
    /\ state.outcome[1] = "TIMEOUT"
    /\ Len(visited) = 1
    /\ visited[1][2] = ChatCallbackFailure("LLM_TIMEOUT", MSG_CHAT_TIMEOUT)
====
